---------------------------- MODULE Spec2Model ----------------------------
(***************************************************************************)
(* carrier-pigeon: collection persistence (Collection::serialize and       *)
(* Collection::deserialize, state.rs) and the update handlers that load,   *)
(* create and save a collection on disk (main.rs).                         *)
(*                                                                         *)
(* Also: the global state functions (SpecGlobal), update applied to key    *)
(* events (SpecKeys), and main with its input-polling task (SpecLoop);     *)
(* the tab enums and their OrderedEnum conversions (SpecTabs), the debug   *)
(* log (SpecLogs), Header::fold (SpecFold), RequestBuilder (SpecBuilder),  *)
(* threads that log while the debug log is drawn (SpecThreads) and         *)
(* convert_case (SpecCase).                                                *)
(*                                                                         *)
(* Option<T> is a sequence of length 0 (None) or 1 (Some); a HashMap is a  *)
(* function whose DOMAIN is its key set; a byte blob is the JSON document  *)
(* it spells (JInvalid when the bytes are not JSON at all).                *)
(***************************************************************************)
EXTENDS Integers, Sequences, FiniteSets, TLC

VARIABLES
    \* ---- the application (main.rs / state.rs)
    collection,       \* app.collection : Option<Collection>
    req_list_state,   \* app.req_list_state.selected() : Option<usize>
    disk,             \* the collection directories, by path
    request_json,     \* the file ./request.json : Option<bytes>
    hist,             \* the calls of update so far: [msg, ret], in order
    writes,           \* the fs::write calls of the last SaveCollection (of the last
                      \* call of update, where update is applied as a whole)
    \* ---- inputs and results of the pure functions
    coll_in,          \* a Collection handed to serialize
    ser_in,           \* a SerializedCollection handed to deserialize
    ser_out,          \* Option: coll_in.serialize()
    de_out,           \* Option: Collection::deserialize(path_in, ser_in)
    rt_out,           \* Option: Collection::deserialize(path_in, coll_in.serialize())
    path_in,          \* the save_location handed to deserialize
    \* ---- the global state and its directory (main.rs 102-133)
    home,             \* env_home_dir() is Some
    app_dir,          \* <home>/.local/share/.carrier-pigeon and its files
    global,           \* app.global : Option<GlobalState>, None before it is loaded
    gcall,            \* the last call of load_/save_global_state: what it met and returned
    \* ---- the rest of App, and the last call of update
    running,          \* app.running
    mode,             \* app.mode
    active_pane,      \* app.active_pane
    req_tab,          \* app.req_tab
    show_debug,       \* app.show_debug
    input_buf,        \* app.input_buf, a sequence of characters
    modal,            \* app.window_state.modal
    last,             \* the last call of update: [msg, ret, did, matched]
    \* ---- main and the input-polling task (main.rs 48-100, 135-147)
    term,             \* the terminal: [alt, raw]
    main_pc,          \* where main is
    main_ret,         \* what main returned: "running", "Ok", "Err", "Panic"
    chan,             \* the channel: a sequence of Option<Message>
    pending,          \* the message main is about to send: Option<Message>
    event_thread,     \* the polling task: "unspawned", "running", "finished"
    due,              \* the messages that were in the channel at the last draw
                      \* and are not applied yet: [all, head], head counting
                      \* those ahead of the first None
    \* ---- the tab enums (state.rs 35-79) and their OrderedEnum conversions
    tab_kind,         \* the enum under test: "RequestTab" or "ResponseTab"
    tab_self,         \* the variant held
    tab_calls,        \* the calls of prev_tab / next_tab so far: [fn, self, ret]
    conv,             \* the last conversion: [kind, fn, idx, variant, and back]
    \* ---- the debug log (ui/logging.rs)
    logger_level,     \* UILogger.level : LevelFilter
    record_buf,       \* the shared RecordBuff: [log_lines, latest_idx]
    logged,           \* the records log() stored so far, in order
    log_last,         \* the last record handed to log(), as an Option
    shown,            \* Option: what display_logs returned, None once log() ran again
    \* ---- Header::fold over a list of headers (model.rs 55-66)
    fold_acc,         \* the accumulator: Result<HeaderMap>
    fold_steps,       \* the calls of fold so far: [headers, el, ret]
    \* ---- RequestBuilder (model.rs 85-278)
    builder,          \* the RequestBuilder; name, method and url None until set
    setter_calls,     \* the calls made on it so far: [fn, arg, self, ret]
    built,            \* Option: the Request build() returned
    \* ---- update on key events: what came before
    before,           \* Option: App as the last call of update on a key event
                      \* found it
    \* ---- threads that log and read the debug log (ui/logging.rs 91-118)
    mutex,            \* the Mutex of the RecordBuff: Option of the thread holding it
    threads,          \* each thread: [pc, line, idx], line the Line it built
    \* ---- convert_case on a string (ui/util.rs 1-13)
    case_in,          \* the String handed to convert_case, as its bytes
    case_out          \* Option: what convert_case returned

appvars == <<collection, req_list_state, disk, request_json, hist, writes>>
purevars == <<coll_in, ser_in, ser_out, de_out, rt_out, path_in>>
globvars == <<home, app_dir, global, gcall>>
winvars == <<running, mode, active_pane, req_tab, show_debug, input_buf, modal, last>>
mainvars == <<term, main_pc, main_ret, chan, pending, event_thread, due>>
tabvars == <<tab_kind, tab_self, tab_calls, conv>>
logvars == <<logger_level, record_buf, logged, log_last, shown>>
foldvars == <<fold_acc, fold_steps>>
buildvars == <<builder, setter_calls, built>>
keyvars == <<before>>
threadvars == <<mutex, threads>>
casevars == <<case_in, case_out>>
unitvars == <<tabvars, logvars, foldvars, buildvars, keyvars, threadvars, casevars>>
vars == <<collection, req_list_state, disk, request_json, hist, writes,
          coll_in, ser_in, ser_out, de_out, rt_out, path_in,
          home, app_dir, global, gcall,
          running, mode, active_pane, req_tab, show_debug, input_buf, modal, last,
          term, main_pc, main_ret, chan, pending, event_thread, due,
          tab_kind, tab_self, tab_calls, conv,
          logger_level, record_buf, logged, log_last, shown,
          fold_acc, fold_steps,
          builder, setter_calls, built,
          before,
          mutex, threads,
          case_in, case_out>>
\* What the actions of one part of the model leave alone.
notapp == <<purevars, globvars, winvars, mainvars, unitvars>>
notpure == <<appvars, globvars, winvars, mainvars, unitvars>>
notglob == <<appvars, purevars, winvars, mainvars, unitvars>>

\* ------------------------------------------------------------------ bounds
\* Longest request / environment sequence of an input Collection.
MaxItems == 2
\* Most messages update is applied to in one run.
MaxHist == 4
\* usize::MAX, scaled down: the largest index a list cursor can hold.
MaxUsize == 3
\* The capacity of the channel (100 in main), scaled down.
Capacity == 3
\* Most calls of prev_tab / next_tab in a row.
MaxCalls == 5
\* The largest usize handed to From<usize> of an enum.
MaxIdx == 5
\* Most records stored in the debug log in one run.
MaxLogs == 300
\* Longest list of headers folded.
MaxFold == 4
\* Most calls made on one RequestBuilder, not counting a leading name,
\* method, url that makes it buildable.
MaxSetters == 3
\* Longest string handed to convert_case.
MaxCase == 3

\* ------------------------------------------------------------ Option, maps
None == <<>>
Some(x) == <<x>>
IsSome(o) == Len(o) = 1
Unwrap(o) == o[1]

EmptyMap == <<>>
\* HashMap::insert: the value stored under an existing key is replaced.
Insert(m, k, v) == [x \in (DOMAIN m) \cup {k} |-> IF x = k THEN v ELSE m[x]]

SeqsUpTo(S, n) == UNION {[1..k -> S] : k \in 0..n}
Range(s) == {s[i] : i \in DOMAIN s}
\* Every order in which an iterator over the keys of a HashMap may yield them.
KeyOrders(m) ==
    {o \in [1..Cardinality(DOMAIN m) -> DOMAIN m] :
        \A i, j \in DOMAIN o : i # j => o[i] # o[j]}

\* -------------------------------------------------------------------- JSON
\* A document: a string, null, an object (a set of <<key, document>> pairs
\* with distinct keys), an array (a sequence of documents), or bytes that do
\* not parse.
JInvalid == [k |-> "invalid", s |-> "", m |-> {}, a |-> <<>>]
JNull == [k |-> "null", s |-> "", m |-> {}, a |-> <<>>]
JStr(s) == [k |-> "str", s |-> s, m |-> {}, a |-> <<>>]
JObj(pairs) == [k |-> "obj", s |-> "", m |-> pairs, a |-> <<>>]
JArr(docs) == [k |-> "arr", s |-> "", m |-> {}, a |-> docs]

JHas(doc, key) == \E p \in doc.m : p[1] = key
JGet(doc, key) == (CHOOSE p \in doc.m : p[1] = key)[2]
JKeys(doc) == {p[1] : p \in doc.m}

\* ------------------------------------------------------------- data model
Methods == {"Get", "Post"}
Protocols == {"Http", "Tcp", "Rpc", "Grpc"}

Header(name, value) == [name |-> name, value |-> value]

Request(name, protocol, url, method, headers, body, path_params, query_params) ==
    [name |-> name, protocol |-> protocol, url |-> url, method |-> method,
     headers |-> headers, body |-> body, path_params |-> path_params,
     query_params |-> query_params]

EnvironmentValue(tag, v) == [tag |-> tag, v |-> v]
VariantTags == {"Secret", "Value"}

Environment(name, values) == [name |-> name, values |-> values]

Collection(requests, environments, save_location) ==
    [requests |-> requests, environments |-> environments,
     save_location |-> save_location]

CollectionDefault == Collection(<<>>, <<>>, None)

SerializedCollection(requests, environments) ==
    [requests |-> requests, environments |-> environments]

\* ------------------------------------------------ serde_json on the types
\* Option<String> and Option<Protocol> (a unit variant is its name): null or
\* a string.
to_json_OptionString(o) == IF IsSome(o) THEN JStr(Unwrap(o)) ELSE JNull

\* Option<HashMap<String, String>>: null or an object of strings.
to_json_OptionStringMap(o) ==
    IF IsSome(o)
    THEN JObj({<<key, JStr(Unwrap(o)[key])>> : key \in DOMAIN Unwrap(o)})
    ELSE JNull

to_json_Header(h) == JObj({<<"name", JStr(h.name)>>, <<"value", JStr(h.value)>>})

\* #[derive(Serialize)] for Request: one member per field.
to_vec_Request(req) ==
    JObj({<<"name", JStr(req.name)>>,
          <<"protocol", to_json_OptionString(req.protocol)>>,
          <<"url", JStr(req.url)>>,
          <<"method", JStr(req.method)>>,
          <<"headers", JArr([i \in DOMAIN req.headers |-> to_json_Header(req.headers[i])])>>,
          <<"body", to_json_OptionString(req.body)>>,
          <<"path_params", to_json_OptionStringMap(req.path_params)>>,
          <<"query_params", to_json_OptionStringMap(req.query_params)>>})

\* EnvironmentValue is an externally tagged enum: {"Value": "..."}.
to_json_EnvironmentValue(ev) == JObj({<<ev.tag, JStr(ev.v)>>})

\* EnvironmentValues = HashMap<String, EnvironmentValue>: one member per key.
to_json_EnvironmentValues(values) ==
    JObj({<<key, to_json_EnvironmentValue(values[key])>> : key \in DOMAIN values})

\* #[derive(Serialize)] for Environment: the members "name" and "values".
to_vec_Environment(env) ==
    JObj({<<"name", JStr(env.name)>>,
          <<"values", to_json_EnvironmentValues(env.values)>>})

\* A required String member.
HasString(doc, key) == JHas(doc, key) /\ JGet(doc, key).k = "str"

\* An Option member: missing, null, or of the type.
IsOptionString(doc, key) == JHas(doc, key) => JGet(doc, key).k \in {"str", "null"}
from_json_OptionString(doc, key) ==
    IF JHas(doc, key) /\ JGet(doc, key).k = "str" THEN Some(JGet(doc, key).s) ELSE None

IsStringMapJson(doc) == doc.k = "obj" /\ \A p \in doc.m : p[2].k = "str"
IsOptionStringMap(doc, key) ==
    JHas(doc, key) => (JGet(doc, key).k = "null" \/ IsStringMapJson(JGet(doc, key)))
from_json_OptionStringMap(doc, key) ==
    IF JHas(doc, key) /\ JGet(doc, key).k = "obj"
    THEN Some([k \in JKeys(JGet(doc, key)) |-> JGet(JGet(doc, key), k).s])
    ELSE None

IsHeaderJson(doc) == doc.k = "obj" /\ HasString(doc, "name") /\ HasString(doc, "value")
from_json_Header(doc) == Header(JGet(doc, "name").s, JGet(doc, "value").s)

\* #[derive(Deserialize)] for Request: name, url, method and headers are
\* required, method and protocol name a variant, the Option fields may be
\* missing or null; members the struct does not have are ignored.
from_slice_Request(doc) ==
    IF /\ doc.k = "obj"
       /\ HasString(doc, "name")
       /\ IsOptionString(doc, "protocol")
       /\ IsSome(from_json_OptionString(doc, "protocol")) =>
              JGet(doc, "protocol").s \in Protocols
       /\ HasString(doc, "url")
       /\ HasString(doc, "method") /\ JGet(doc, "method").s \in Methods
       /\ JHas(doc, "headers") /\ JGet(doc, "headers").k = "arr"
       /\ \A i \in DOMAIN JGet(doc, "headers").a : IsHeaderJson(JGet(doc, "headers").a[i])
       /\ IsOptionString(doc, "body")
       /\ IsOptionStringMap(doc, "path_params")
       /\ IsOptionStringMap(doc, "query_params")
    THEN Some(Request(JGet(doc, "name").s,
                      from_json_OptionString(doc, "protocol"),
                      JGet(doc, "url").s,
                      JGet(doc, "method").s,
                      [i \in DOMAIN JGet(doc, "headers").a |->
                          from_json_Header(JGet(doc, "headers").a[i])],
                      from_json_OptionString(doc, "body"),
                      from_json_OptionStringMap(doc, "path_params"),
                      from_json_OptionStringMap(doc, "query_params")))
    ELSE None

\* A newtype variant decodes from an object with exactly one member, whose
\* key names the variant and whose value is a string.
IsEnvironmentValueJson(doc) ==
    /\ doc.k = "obj"
    /\ Cardinality(doc.m) = 1
    /\ \A p \in doc.m : p[1] \in VariantTags /\ p[2].k = "str"

from_json_EnvironmentValue(doc) ==
    LET p == CHOOSE q \in doc.m : TRUE IN EnvironmentValue(p[1], p[2].s)

\* HashMap<String, EnvironmentValue>: an object every member of which
\* decodes as an EnvironmentValue; one member that does not fails the whole.
from_slice_EnvironmentValues(doc) ==
    IF doc.k = "obj" /\ \A p \in doc.m : IsEnvironmentValueJson(p[2])
    THEN Some([key \in JKeys(doc) |-> from_json_EnvironmentValue(JGet(doc, key))])
    ELSE None


\* ------------------------------------------------- Collection::serialize
\* The closure folded over self.requests: serde_json::to_vec cannot fail on
\* a Request (string keys, no custom impl), so the Ok branch is always taken.
\* (variant: entry(name).or_insert(..), which keeps the first of a name)
serialize_request_keep_first(reqs, req) ==
    IF req.name \in DOMAIN reqs THEN reqs
    ELSE Insert(reqs, req.name, to_vec_Request(req))

serialize_request(reqs, req) == Insert(reqs, req.name, to_vec_Request(req))

RECURSIVE fold_requests(_, _)
fold_requests(requests, reqs) ==
    IF requests = <<>> THEN reqs
    ELSE fold_requests(Tail(requests), serialize_request(reqs, Head(requests)))

\* The closure folded over self.environments: the whole Environment struct
\* is encoded, keyed by its name.
serialize_environment(envs, env) == Insert(envs, env.name, to_vec_Environment(env))

RECURSIVE fold_environments(_, _)
fold_environments(environments, envs) ==
    IF environments = <<>> THEN envs
    ELSE fold_environments(Tail(environments),
                           serialize_environment(envs, Head(environments)))

serialize(self) ==
    SerializedCollection(fold_requests(self.requests, EmptyMap),
                         fold_environments(self.environments, EmptyMap))

\* ----------------------------------------------- Collection::deserialize
\* filter_map over the keys of ser_coll.requests, in the order `keys`: a blob
\* that decodes contributes its Request, one that does not contributes nothing.
\* (variant: map(..).collect::<Result<Vec<_>, _>>().unwrap_or_default(), which
\* gives up on the first blob that does not decode)
filter_map_requests_all_or_nothing(keys, requests) ==
    IF \E i \in DOMAIN keys : ~IsSome(from_slice_Request(requests[keys[i]]))
    THEN <<>>
    ELSE [i \in DOMAIN keys |-> Unwrap(from_slice_Request(requests[keys[i]]))]

RECURSIVE filter_map_requests(_, _)
filter_map_requests(keys, requests) ==
    IF keys = <<>> THEN <<>>
    ELSE from_slice_Request(requests[Head(keys)])
            \o filter_map_requests(Tail(keys), requests)

\* The closure over the keys of ser_coll.environments: the blob is decoded as
\* the values mapping and the map key becomes the name.
deserialize_environment(key, blob) ==
    LET values == from_slice_EnvironmentValues(blob)
    IN IF IsSome(values) THEN Some(Environment(key, Unwrap(values))) ELSE None

RECURSIVE filter_map_environments(_, _)
filter_map_environments(keys, environments) ==
    IF keys = <<>> THEN <<>>
    ELSE deserialize_environment(Head(keys), environments[Head(keys)])
            \o filter_map_environments(Tail(keys), environments)

\* req_keys and env_keys are the orders in which the two keys() iterators
\* yield the keys (a HashMap's order is unspecified).
deserialize(save_location, ser_coll, req_keys, env_keys) ==
    Collection(filter_map_requests(req_keys, ser_coll.requests),
               filter_map_environments(env_keys, ser_coll.environments),
               Some(save_location))

\* ------------------------------------------------------- bounded inputs
WorkDir == "./.pigeon"
OtherDir == "./elsewhere"
Paths == {WorkDir, OtherDir}

KeyPool == <<"a", "b", "c", "d", "e">>
Keys == {KeyPool[i] : i \in 1..MaxItems}

\* The default environment of NewCollection.
TestValues == [key \in {"TestValue"} |-> EnvironmentValue("Value", "Some value")]
SecretValues == [key \in {"token"} |-> EnvironmentValue("Secret", "s3")]

\* A request with the defaults of the builder, and one with every field set.
PlainRequest(name, url) == Request(name, None, url, "Get", <<>>, None, None, None)
FullRequest(name, url) ==
    Request(name, Some("Http"), url, "Post", <<Header("Accept", "text/plain")>>,
            Some("data"), Some([key \in {"id"} |-> "7"]), Some(EmptyMap))

RequestInputs ==
    {PlainRequest("a", "u1"), PlainRequest("a", "u2"),
     PlainRequest("b", "u1"), FullRequest("b", "u1")}

EnvironmentInputs ==
    {Environment(n, v) : n \in {"TestEnvironment", "dev"},
                         v \in {TestValues, SecretValues}}

CollectionInputs ==
    {Collection(r, e, None) : r \in SeqsUpTo(RequestInputs, MaxItems),
                              e \in SeqsUpTo(EnvironmentInputs, MaxItems)}

\* Blobs a requests mapping may hold: two requests of one name, bytes that are
\* no JSON, and a document of another shape.
RequestBlobInputs ==
    {to_vec_Request(PlainRequest("a", "u1")),
     to_vec_Request(FullRequest("a", "u2")),
     JInvalid,
     to_json_EnvironmentValues(TestValues)}

\* Blobs an environments mapping may hold: a values mapping, a whole
\* Environment struct, and bytes that are no JSON.
EnvironmentBlobInputs ==
    {to_json_EnvironmentValues(TestValues),
     to_vec_Environment(Environment("dev", TestValues)),
     JInvalid}

MapsOver(keys, blobs) == UNION {[d -> blobs] : d \in SUBSET keys}

SerializedInputs ==
    {SerializedCollection(r, e) : r \in MapsOver(Keys, RequestBlobInputs),
                                  e \in MapsOver(Keys, EnvironmentBlobInputs)}

\* ----------------------------------------------------------- the file system
\* A collection directory: the path itself and its two subdirectories, each
\* "absent", a "dir" or a "file" (anything read_dir refuses). An entry of a
\* subdirectory is Some(bytes), or None when fs::read of it fails (it is a
\* directory itself, or may not be opened); such an entry cannot be written
\* as a file either.
Sub(kind, files) == [kind |-> kind, files |-> files]
AbsentSub == Sub("absent", EmptyMap)
Tree(kind, requests, environments) ==
    [kind |-> kind, requests |-> requests, environments |-> environments]
AbsentTree == Tree("absent", AbsentSub, AbsentSub)
FileTree == Tree("file", AbsentSub, AbsentSub)

\* Path::exists
exists(node) == node.kind # "absent"
\* fs::read_dir succeeds on a directory only.
read_dir_ok(sub) == sub.kind = "dir"

\* ----------------------------------------------------------------- messages
Message(type, path) == [type |-> type, path |-> path]
StartMsg == Message("Start", "")
NewCollectionMsg == Message("NewCollection", "")
SaveCollectionMsg == Message("SaveCollection", "")
LoadCollectionMsg(path) == Message("LoadCollection", path)

\* Result<Option<Message>>, and a panic (the call never returns).
Ok(msg) == [status |-> "Ok", msg |-> msg]
Err == [status |-> "Err", msg |-> None]
Panic == [status |-> "Panic", msg |-> None]

NoWrites == [attempted |-> {}, failed |-> {}, mkdir_failed |-> {}]

\* ------------------------------------------------------------ global state
\* GlobalState { secrets: HashMap<Box<str>, Secret> }; Secret has the one
\* unit variant RawValue.
GlobalState(secrets) == [secrets |-> secrets]
Secret == {"RawValue"}

\* serde_json::to_vec(&state.secrets): a unit variant is written as its name.
to_vec_Secrets(secrets) == JObj({<<key, JStr(secrets[key])>> : key \in DOMAIN secrets})

\* A unit variant is read from its name, or from {"<name>": null}.
IsSecretJson(doc) ==
    \/ doc.k = "str" /\ doc.s \in Secret
    \/ doc.k = "obj" /\ \E v \in Secret : doc.m = {<<v, JNull>>}
from_json_Secret(doc) ==
    IF doc.k = "str" THEN doc.s ELSE (CHOOSE p \in doc.m : TRUE)[1]
\* serde_json::from_slice::<HashMap<Box<str>, Secret>>
from_slice_Secrets(doc) ==
    IF doc.k = "obj" /\ \A p \in doc.m : IsSecretJson(p[2])
    THEN Some([key \in JKeys(doc) |-> from_json_Secret(JGet(doc, key))])
    ELSE None

\* app_dir is a Sub: "absent", a "dir" or a "file"; its file "secrets" is
\* missing, Some(bytes), or None when it cannot be read.
\* fs::read(app_dir.join("secrets"))
read_secrets(dir) ==
    IF "secrets" \in DOMAIN dir.files THEN dir.files["secrets"] ELSE None

\* fs::create_dir_all(app_dir): refused by the operating system (mkdir_ok
\* false), or because something that is not a directory has the name.
create_dir_all_ok(dir, mkdir_ok) == dir.kind = "absent" /\ mkdir_ok

\* (variant: a missing or unreadable secrets file read as an empty mapping)
load_global_state_missing_is_empty(home_known, dir, mkdir_ok) ==
    IF ~home_known THEN [ret |-> Err, dir |-> dir]
    ELSE IF dir.kind = "dir"
    THEN IF IsSome(read_secrets(dir))
         THEN LET secrets == from_slice_Secrets(Unwrap(read_secrets(dir)))
              IN IF IsSome(secrets)
                 THEN [ret |-> [status |-> "Ok", state |-> GlobalState(Unwrap(secrets))],
                       dir |-> dir]
                 ELSE [ret |-> Err, dir |-> dir]
         ELSE [ret |-> [status |-> "Ok", state |-> GlobalState(EmptyMap)], dir |-> dir]
    ELSE IF create_dir_all_ok(dir, mkdir_ok)
         THEN [ret |-> [status |-> "Ok", state |-> GlobalState(EmptyMap)],
               dir |-> Sub("dir", EmptyMap)]
         ELSE [ret |-> Err, dir |-> dir]

\* load_global_state(): what it returns and the directory it leaves.
load_global_state(home_known, dir, mkdir_ok) ==
    IF ~home_known THEN [ret |-> Err, dir |-> dir]
    ELSE IF dir.kind = "dir"
    THEN IF IsSome(read_secrets(dir))
         THEN LET secrets == from_slice_Secrets(Unwrap(read_secrets(dir)))
              IN IF IsSome(secrets)
                 THEN [ret |-> [status |-> "Ok", state |-> GlobalState(Unwrap(secrets))],
                       dir |-> dir]
                 ELSE [ret |-> Err, dir |-> dir]
         ELSE [ret |-> Err, dir |-> dir]
    ELSE IF create_dir_all_ok(dir, mkdir_ok)
         THEN [ret |-> [status |-> "Ok", state |-> GlobalState(EmptyMap)],
               dir |-> Sub("dir", EmptyMap)]
         ELSE [ret |-> Err, dir |-> dir]

\* fs::write(app_dir.join("secrets"), ..) creates or truncates the file; it
\* fails when refused (write_allowed false) or when the entry cannot be opened.
write_secrets_ok(dir, write_allowed) ==
    /\ write_allowed
    /\ "secrets" \in DOMAIN dir.files => IsSome(dir.files["secrets"])

\* (variant: create_dir_all(app_dir) before the write, whatever is_dir says)
save_global_state_creating_dir(home_known, dir, state, write_allowed) ==
    IF ~home_known THEN [ret |-> Err, dir |-> dir]
    ELSE IF dir.kind \in {"dir", "absent"}
    THEN IF write_secrets_ok(dir, write_allowed)
         THEN [ret |-> Ok(None),
               dir |-> Sub("dir", Insert(dir.files, "secrets", Some(to_vec_Secrets(state.secrets))))]
         ELSE [ret |-> Err, dir |-> Sub("dir", dir.files)]
    ELSE [ret |-> Ok(None), dir |-> dir]

\* save_global_state(state): what it returns and the directory it leaves.
save_global_state(home_known, dir, state, write_allowed) ==
    IF ~home_known THEN [ret |-> Err, dir |-> dir]
    ELSE IF dir.kind = "dir"
    THEN IF write_secrets_ok(dir, write_allowed)
         THEN [ret |-> Ok(None),
               dir |-> Sub("dir", Insert(dir.files, "secrets", Some(to_vec_Secrets(state.secrets))))]
         ELSE [ret |-> Err, dir |-> dir]
    ELSE [ret |-> Ok(None), dir |-> dir]

NoCall == [fn |-> "none", before |-> Sub("absent", EmptyMap), state |-> None,
           allowed |-> TRUE, ret |-> Ok(None)]

\* The global state of a run that has not called load_global_state yet.
GlobIdle ==
    /\ home = TRUE
    /\ app_dir = Sub("absent", EmptyMap)
    /\ global = None
    /\ gcall = NoCall

\* ------------------------------------------------------- load_application
\* load_application that never looks at the directory.
load_application_always_loading(d) == Ok(Some(LoadCollectionMsg(WorkDir)))
\* load_application(app): LoadCollection(work_dir) if work_dir exists,
\* NewCollection otherwise.
load_application(d) ==
    IF exists(d[WorkDir]) THEN Ok(Some(LoadCollectionMsg(WorkDir)))
    ELSE Ok(Some(NewCollectionMsg))

\* ---------------------------------------------- Message::LoadCollection
\* The fold over the entries of a directory: fs::read(..).unwrap() panics on
\* an entry that cannot be read; otherwise file name -> bytes.
read_entries_panics(sub) == \E name \in DOMAIN sub.files : ~IsSome(sub.files[name])
read_entries(sub) == [name \in DOMAIN sub.files |-> Unwrap(sub.files[name])]

\* How far the handler gets: "Err" (a bail!), "Panic" (an unwrap), or "Ok".
load_outcome(tree) ==
    IF ~read_dir_ok(tree.requests) THEN "Err"
    ELSE IF read_entries_panics(tree.requests) THEN "Panic"
    ELSE IF ~read_dir_ok(tree.environments) THEN "Err"
    ELSE IF read_entries_panics(tree.environments) THEN "Panic"
    ELSE "Ok"

load_serialized(tree) ==
    SerializedCollection(read_entries(tree.requests), read_entries(tree.environments))

\* ListState::select_first
select_first == Some(0)

\* ----------------------------------------------- Request::from_file_sync
\* File::open fails on a missing file; serde_json::from_str on anything that
\* is not a Request.
from_file_sync(file) ==
    IF IsSome(file) THEN from_slice_Request(Unwrap(file)) ELSE None

\* ------------------------------------------------ Message::NewCollection
new_collection(request) ==
    Collection(<<request>>, <<Environment("TestEnvironment", TestValues)>>, None)

\* ----------------------------------------------- Message::SaveCollection
\* save_location when it is set, app.work_dir otherwise.
save_path(coll) ==
    IF IsSome(coll.save_location) THEN Unwrap(coll.save_location) ELSE WorkDir

\* fs::write of one file succeeds in a directory, unless the call is one of
\* those that fail (write_fail) or the entry is one that cannot be opened.
write_ok(sub, dir, key, write_fail) ==
    /\ sub.kind = "dir"
    /\ <<dir, key>> \notin write_fail
    /\ key \in DOMAIN sub.files => IsSome(sub.files[key])

\* keys().for_each(|key| { let _ = fs::write(..); }): every key is attempted,
\* whatever the earlier writes returned.
\* (variant: try_for_each(|key| fs::write(..)), which stops at a failed write)
attempted_writes_until_failure(dir, blobs, sub, write_fail) ==
    LET bad == {key \in DOMAIN blobs : ~write_ok(sub, dir, key, write_fail)}
    IN IF bad = {} THEN {<<dir, key>> : key \in DOMAIN blobs}
       ELSE {<<dir, CHOOSE key \in bad : TRUE>>}

attempted_writes(dir, blobs, sub, write_fail) == {<<dir, key>> : key \in DOMAIN blobs}

failed_writes(dir, blobs, sub, write_fail) ==
    {w \in attempted_writes(dir, blobs, sub, write_fail) :
        ~write_ok(sub, dir, w[2], write_fail)}

write_files(dir, blobs, sub, write_fail) ==
    LET done == {w[2] : w \in attempted_writes(dir, blobs, sub, write_fail)
                            \ failed_writes(dir, blobs, sub, write_fail)}
    IN Sub(sub.kind,
           [key \in (DOMAIN sub.files) \cup done |->
               IF key \in done THEN Some(blobs[key]) ELSE sub.files[key]])

\* fs::create_dir of a subdirectory needs its parent to be a directory.
create_dir_ok(tree, name, mkdir_fail) == tree.kind = "dir" /\ name \notin mkdir_fail

\* The handler from `if !path.exists()` on: the tree it leaves, the writes it
\* made and what it returns. mkdir_fail and write_fail are the calls the
\* operating system refuses.
save_to(tree, ser, mkdir_fail, write_fail) ==
    LET t1 == IF exists(tree) THEN tree ELSE [tree EXCEPT !.kind = "dir"]
        t2 == IF exists(t1.requests) THEN t1
              ELSE [t1 EXCEPT !.requests = Sub("dir", EmptyMap)]
        t3 == [t2 EXCEPT !.requests =
                  write_files("requests", ser.requests, t2.requests, write_fail)]
        w3 == [attempted |-> attempted_writes("requests", ser.requests, t2.requests, write_fail),
               failed |-> failed_writes("requests", ser.requests, t2.requests, write_fail),
               mkdir_failed |-> {}]
        t4 == IF exists(t3.environments) THEN t3
              ELSE [t3 EXCEPT !.environments = Sub("dir", EmptyMap)]
        t5 == [t4 EXCEPT !.environments =
                  write_files("environments", ser.environments, t4.environments, write_fail)]
        w5 == [attempted |-> w3.attempted \cup
                   attempted_writes("environments", ser.environments, t4.environments, write_fail),
               failed |-> w3.failed \cup
                   failed_writes("environments", ser.environments, t4.environments, write_fail),
               mkdir_failed |-> {}]
    IN  IF ~exists(tree) /\ "path" \in mkdir_fail
        THEN [tree |-> tree, ret |-> Err,
              writes |-> [NoWrites EXCEPT !.mkdir_failed = {"path"}]]
        ELSE IF ~exists(t1.requests) /\ ~create_dir_ok(t1, "requests", mkdir_fail)
        THEN [tree |-> t1, ret |-> Err,
              writes |-> [NoWrites EXCEPT !.mkdir_failed = {"requests"}]]
        ELSE IF ~exists(t3.environments) /\ ~create_dir_ok(t3, "environments", mkdir_fail)
        THEN [tree |-> t3, ret |-> Err,
              writes |-> [w3 EXCEPT !.mkdir_failed = {"environments"}]]
        ELSE [tree |-> t5, ret |-> Ok(None), writes |-> w5]

\* ------------------------------------------------------------------ keys
\* crossterm KeyEvent: code is the character of KeyCode::Char, or "Esc",
\* "F12", "Enter" for the other codes; kind is "Press" or "Release".
KeyEvent(code, kind) == [code |-> code, kind |-> kind]
OtherCodes == {"Esc", "F12", "Enter"}
IsChar(code) == code \notin OtherCodes

RawKeyEvent(event) == [type |-> "RawKeyEvent", path |-> event.code, kind |-> event.kind]
QuitMsg == Message("Quit", "")
SaveGlobalMsg == Message("SaveGlobal", "")
ToggleDebugMsg == Message("ToggleDebug", "")
InputMsg(char) == Message("Input", char)
ModeRequestMsg(m) == Message("ModeRequest", m)
RequestPaneMsg(pane) == Message("RequestPane", pane)
CrashMsg == Message("Crash", "Event channel closed")

handle_normal_key(key_event) ==
    IF key_event.kind = "Press"
    THEN CASE key_event.code = "1" -> Some(RequestPaneMsg("Select"))
           [] key_event.code = "2" -> Some(RequestPaneMsg("Url"))
           [] key_event.code = "3" -> Some(RequestPaneMsg("Request"))
           [] key_event.code = "4" -> Some(RequestPaneMsg("Response"))
           [] key_event.code = "i" -> Some(ModeRequestMsg("Insert"))
           [] key_event.code = "h" -> Some(Message("SelectLeft", ""))
           [] key_event.code = "j" -> Some(Message("SelectDown", ""))
           [] key_event.code = "k" -> Some(Message("SelectUp", ""))
           [] key_event.code = "l" -> Some(Message("SelectRight", ""))
           [] key_event.code = "q" -> Some(QuitMsg)
           [] key_event.code = "Q" -> Some(QuitMsg)
           [] key_event.code = "F12" -> Some(ToggleDebugMsg)
           [] OTHER -> None
    ELSE None

handle_insert_key(key_event) ==
    IF key_event.kind = "Press"
    THEN CASE key_event.code = "Esc" -> Some(ModeRequestMsg("Normal"))
           [] IsChar(key_event.code) -> Some(InputMsg(key_event.code))
           [] key_event.code = "F12" -> Some(ToggleDebugMsg)
           [] OTHER -> None
    ELSE None

\* match app.mode { Insert => handle_insert_key(event), Normal => handle_normal_key(event) }
\* (variant: the key read as in Normal mode, whatever the mode)
key_message_ignoring_mode(app_mode, key_event) == handle_normal_key(key_event)

key_message(app_mode, key_event) ==
    IF app_mode = "Insert" THEN handle_insert_key(key_event)
    ELSE handle_normal_key(key_event)

\* ---------------------------------------------------------------- update
\* enum Tab, in declaration order; From<usize> gives the last variant for an
\* index out of range.
Tab == <<"Body", "Headers">>
Tab_into(tab) == (CHOOSE i \in DOMAIN Tab : Tab[i] = tab) - 1
Tab_from(idx) == IF idx + 1 \in DOMAIN Tab THEN Tab[idx + 1] ELSE Tab[Len(Tab)]

\* ListState::select_next / select_previous on selected(), saturating.
saturating_add(i) == IF i = MaxUsize THEN MaxUsize ELSE i + 1
saturating_sub(i) == IF i = 0 THEN 0 ELSE i - 1
select_next(selected) ==
    Some(IF IsSome(selected) THEN saturating_add(Unwrap(selected)) ELSE 0)
select_previous(selected) ==
    Some(IF IsSome(selected) THEN saturating_sub(Unwrap(selected)) ELSE MaxUsize)

\* The calls the operating system refuses during one call of update.
Faults(mkdir_fail, write_fail, secrets_write) ==
    [mkdir_fail |-> mkdir_fail, write_fail |-> write_fail, secrets_write |-> secrets_write]
NoFaults == Faults({}, {}, TRUE)

\* One way a call of update can end: the App and the files it leaves, what
\* it returns, the fs::write calls of its SaveCollection, the save handlers
\* it ran, in order, and the message its match was applied to (None when a
\* key event stands for no message).
Outcome(app, fs, result, w, did) ==
    [app |-> app, fs |-> fs, ret |-> result, writes |-> w, did |-> did, matched |-> None]

\* Message::LoadCollection(path)
update_LoadCollection(app, fs, path) ==
    LET outcome == load_outcome(fs.disk[path])
        ser_coll == load_serialized(fs.disk[path])
    IN IF outcome = "Ok"
       THEN {Outcome([app EXCEPT !.collection =
                          Some(deserialize(path, ser_coll, req_keys, env_keys)),
                                 !.req_list_state = select_first],
                     fs, Ok(None), NoWrites, <<>>) :
                req_keys \in KeyOrders(ser_coll.requests),
                env_keys \in KeyOrders(ser_coll.environments)}
       ELSE {Outcome(app, fs, IF outcome = "Err" THEN Err ELSE Panic, NoWrites, <<>>)}

\* Message::NewCollection
update_NewCollection(app, fs) ==
    LET request == from_file_sync(fs.request_json)
    IN IF IsSome(request)
       THEN {Outcome([app EXCEPT !.collection = Some(new_collection(Unwrap(request)))],
                     fs, Ok(Some(SaveCollectionMsg)), NoWrites, <<>>)}
       ELSE {Outcome(app, fs, Err, NoWrites, <<>>)}

\* Message::SaveCollection
update_SaveCollection(app, fs, faults) ==
    IF IsSome(app.collection)
    THEN LET path == save_path(Unwrap(app.collection))
             out == save_to(fs.disk[path], serialize(Unwrap(app.collection)),
                            faults.mkdir_fail, faults.write_fail)
         IN {Outcome(app, [fs EXCEPT !.disk[path] = out.tree], out.ret, out.writes,
                     <<"SaveCollection">>)}
    ELSE {Outcome(app, fs, Err, NoWrites, <<"SaveCollection">>)}

\* Message::SaveGlobal
update_SaveGlobal(app, fs, faults) ==
    LET out == save_global_state(fs.home, fs.app_dir, Unwrap(app.global), faults.secrets_write)
    IN {Outcome(app, [fs EXCEPT !.app_dir = out.dir], out.ret, NoWrites, <<"SaveGlobal">>)}

\* Message::Quit: running = false, then update(app, SaveCollection)? and
\* update(app, SaveGlobal)?, each `?` returning the error of its call.
update_Quit(app, fs, faults) ==
    LET stopped == [app EXCEPT !.running = FALSE]
    IN UNION {IF saved.ret.status # "Ok" THEN {saved}
              ELSE {Outcome(g.app, g.fs,
                            IF g.ret.status = "Ok" THEN Ok(None) ELSE g.ret,
                            saved.writes, saved.did \o g.did) :
                       g \in update_SaveGlobal(saved.app, saved.fs, faults)} :
                 saved \in update_SaveCollection(stopped, fs, faults)}

\* The match on the message, for every message but a raw key event.
\* RequestPane(pane) opening the Load Collection modal as well.
update_RequestPane_opening_modal(app, fs, pane) ==
    {Outcome([app EXCEPT !.active_pane = pane, !.modal = "LoadCollection"],
             fs, Ok(None), NoWrites, <<>>)}
\* Message::RequestPane(pane).
update_RequestPane(app, fs, pane) ==
    {Outcome([app EXCEPT !.active_pane = pane], fs, Ok(None), NoWrites, <<>>)}

\* Message::SelectDown.
update_SelectDown(app, fs) ==
    {Outcome(IF app.active_pane = "Select"
             THEN [app EXCEPT !.req_list_state = select_next(app.req_list_state)]
             ELSE app, fs, Ok(None), NoWrites, <<>>)}

\* SelectLeft moving the tab whatever pane has the focus.
update_SelectLeft_in_any_pane(app, fs) ==
    {Outcome([app EXCEPT !.req_tab =
                 Tab_from(IF Tab_into(app.req_tab) = 0 THEN Tab_into(app.req_tab)
                          ELSE Tab_into(app.req_tab) - 1)],
             fs, Ok(None), NoWrites, <<>>)}
\* Message::SelectLeft.
update_SelectLeft(app, fs) ==
    {Outcome(IF app.active_pane = "Request"
             THEN [app EXCEPT !.req_tab =
                      Tab_from(IF Tab_into(app.req_tab) = 0 THEN Tab_into(app.req_tab)
                               ELSE Tab_into(app.req_tab) - 1)]
             ELSE app, fs, Ok(None), NoWrites, <<>>)}

\* SelectRight going round to the first tab from the last.
update_SelectRight_wrapping(app, fs) ==
    {Outcome(IF app.active_pane = "Request"
             THEN [app EXCEPT !.req_tab = Tab[((Tab_into(app.req_tab) + 1) % Len(Tab)) + 1]]
             ELSE app, fs, Ok(None), NoWrites, <<>>)}
\* Message::SelectRight.
update_SelectRight(app, fs) ==
    {Outcome(IF app.active_pane = "Request"
             THEN [app EXCEPT !.req_tab = Tab_from(Tab_into(app.req_tab) + 1)]
             ELSE app, fs, Ok(None), NoWrites, <<>>)}

\* Message::SelectUp.
update_SelectUp(app, fs) ==
    {Outcome(IF app.active_pane = "Select"
             THEN [app EXCEPT !.req_list_state = select_previous(app.req_list_state)]
             ELSE app, fs, Ok(None), NoWrites, <<>>)}

\* ToggleDebug that only ever switches the debug view on.
update_ToggleDebug_switching_on(app, fs) ==
    {Outcome([app EXCEPT !.show_debug = TRUE], fs, Ok(None), NoWrites, <<>>)}
\* Message::ToggleDebug.
update_ToggleDebug(app, fs) ==
    {Outcome([app EXCEPT !.show_debug = ~app.show_debug], fs, Ok(None), NoWrites, <<>>)}

update_match(app, fs, msg, faults) ==
    CASE msg.type = "Crash" -> {Outcome(app, fs, Err, NoWrites, <<>>)}
      [] msg.type = "Input" -> {Outcome(app, fs, Ok(None), NoWrites, <<>>)}
      [] msg.type = "LoadCollection" -> update_LoadCollection(app, fs, msg.path)
      [] msg.type = "ModeRequest" ->
            {Outcome([app EXCEPT !.mode = msg.path], fs, Ok(None), NoWrites, <<>>)}
      [] msg.type = "NewCollection" -> update_NewCollection(app, fs)
      [] msg.type = "Quit" -> update_Quit(app, fs, faults)
      [] msg.type = "RequestPane" -> update_RequestPane(app, fs, msg.path)
      [] msg.type = "SaveCollection" -> update_SaveCollection(app, fs, faults)
      [] msg.type = "SaveGlobal" -> update_SaveGlobal(app, fs, faults)
      [] msg.type = "SelectDown" -> update_SelectDown(app, fs)
      [] msg.type = "SelectLeft" -> update_SelectLeft(app, fs)
      [] msg.type = "SelectRight" -> update_SelectRight(app, fs)
      [] msg.type = "SelectUp" -> update_SelectUp(app, fs)
      [] msg.type = "Start" ->
            {Outcome(app, fs, load_application(fs.disk), NoWrites, <<>>)}
      [] msg.type = "ToggleDebug" -> update_ToggleDebug(app, fs)
      [] OTHER -> {Outcome(app, fs, Ok(None), NoWrites, <<>>)}

\* update(app, msg): every way the call can end. A raw key event is first
\* turned into a message by the handler of the mode; none: return Ok(None).
update(app, fs, msg, faults) ==
    LET translated == IF msg.type = "RawKeyEvent"
                      THEN key_message(app.mode, KeyEvent(msg.path, msg.kind))
                      ELSE Some(msg)
    IN IF translated = None
       THEN {Outcome(app, fs, Ok(None), NoWrites, <<>>)}
       ELSE {[out EXCEPT !.matched = translated] :
                out \in update_match(app, fs, Unwrap(translated), faults)}

\* ------------------------------------------------------------ tui, ui::draw
\* The terminal: in the alternate screen, in raw mode.
Terminal(alt, raw) == [alt |-> alt, raw |-> raw]
\* tui::init: EnterAlternateScreen, enable_raw_mode.
tui_init(t) == Terminal(TRUE, TRUE)
\* (variant: restore without disable_raw_mode)
tui_restore_keeping_raw_mode(t) == Terminal(FALSE, t.raw)
\* tui::restore: LeaveAlternateScreen, disable_raw_mode.
tui_restore(t) == Terminal(FALSE, FALSE)
\* errors::install_hooks: the hooks it installs restore the terminal before
\* an error or a panic is reported.
error_hook(t) == tui_restore(t)

\* The match of ui::draw on window_state.modal: nothing for Modal::None, the
\* Load Collection box for Modal::LoadCollection, todo!() for
\* Modal::Environment.
draw_modal(m) ==
    CASE m = "None" -> "nothing"
      [] m = "LoadCollection" -> "box"
      [] m = "Environment" -> "todo"
\* ui::draw panics on selected().expect(..) when there is a collection and
\* no selected index, and on todo!().
draw_panics(app) ==
    \/ IsSome(app.collection) /\ ~IsSome(app.req_list_state)
    \/ draw_modal(app.modal) = "todo"
\* Rendering the list of n requests: no selection in an empty list, and a
\* selection past the end is moved to the last item.
render_list(selected, n) ==
    IF n = 0 THEN None
    ELSE IF IsSome(selected) /\ Unwrap(selected) >= n THEN Some(n - 1)
    ELSE selected
list_len(app) == IF IsSome(app.collection) THEN Len(Unwrap(app.collection).requests) ELSE 0

\* --------------------------------------------------------------- main loop
\* while let Some(msg) = event_rx.recv().await { if let Some(msg) =
\* update(..)? { event_tx.send(Some(msg)).await?; } }: where main goes after
\* it received value and, for a message, update returned result.
\* (variant: one message per draw)
after_recv_one_per_draw(value, result) ==
    IF value = None THEN "head"
    ELSE IF result.status # "Ok" THEN "exit"
    ELSE "head"

\* (variant: the inner loop left when update returns None)
after_recv_ending_on_none_result(value, result) ==
    IF value = None THEN "head"
    ELSE IF result.status # "Ok" THEN "exit"
    ELSE IF IsSome(result.msg) THEN "send"
    ELSE "head"

after_recv(value, result) ==
    IF value = None THEN "head"
    ELSE IF result.status # "Ok" THEN "exit"
    ELSE IF IsSome(result.msg) THEN "send"
    ELSE "recv"

\* ------------------------------------------------------- disks at startup
FileNames == {"a", "b"}

RequestEntryInputs ==
    {Some(to_vec_Request(PlainRequest("a", "u1"))),
     Some(to_vec_Request(FullRequest("a", "u2"))),
     Some(JInvalid),
     None}

EnvironmentEntryInputs ==
    {Some(to_json_EnvironmentValues(TestValues)),
     Some(to_vec_Environment(Environment("dev", SecretValues))),
     None}

SubInputs(entries) ==
    {AbsentSub, Sub("file", EmptyMap)}
        \cup {Sub("dir", files) : files \in MapsOver(FileNames, entries)}

WorkDirInputs ==
    {AbsentTree, FileTree}
        \cup {Tree("dir", r, e) : r \in SubInputs(RequestEntryInputs),
                                  e \in SubInputs(EnvironmentEntryInputs)}

OtherDirInputs ==
    {Tree("dir",
          Sub("dir", [n \in {"b"} |-> Some(to_vec_Request(FullRequest("b", "u1")))]),
          Sub("dir", [n \in {"dev"} |-> Some(to_json_EnvironmentValues(SecretValues))]))}

RequestJsonInputs ==
    {None, Some(JInvalid), Some(to_vec_Request(PlainRequest("a", "u1")))}

\* ------------------------------------------ OrderedEnum and the tab enums
\* An enum is the sequence of its variants in declaration order.
RequestTab == <<"Body", "Headers", "PathParams", "QueryParams">>
ResponseTab == <<"Body", "Headers">>

\* impl From<Enum> for usize: one match arm per variant, its index.
OrderedEnum_into(variants, val) == (CHOOSE i \in DOMAIN variants : variants[i] = val) - 1
\* From<usize> with the indices past the end counted round from the first.
OrderedEnum_from_modulo(variants, val) == variants[(val % Len(variants)) + 1]
\* impl From<usize> for Enum: one match arm per index, `_ =>` the last variant.
OrderedEnum_from(variants, val) ==
    IF val + 1 \in DOMAIN variants THEN variants[val + 1] ELSE variants[Len(variants)]

\* prev_tab without the test of idx == 0: idx - 1 wraps below zero.
RequestTab_prev_tab_wrapping(self) ==
    OrderedEnum_from(RequestTab, OrderedEnum_into(RequestTab, self) - 1)
RequestTab_prev_tab(self) ==
    LET idx == OrderedEnum_into(RequestTab, self)
    IN IF idx = 0 THEN OrderedEnum_from(RequestTab, idx)
       ELSE OrderedEnum_from(RequestTab, idx - 1)
RequestTab_next_tab(self) ==
    OrderedEnum_from(RequestTab, OrderedEnum_into(RequestTab, self) + 1)

ResponseTab_prev_tab(self) ==
    LET idx == OrderedEnum_into(ResponseTab, self)
    IN IF idx = 0 THEN OrderedEnum_from(ResponseTab, idx)
       ELSE OrderedEnum_from(ResponseTab, idx - 1)
ResponseTab_next_tab(self) ==
    OrderedEnum_from(ResponseTab, OrderedEnum_into(ResponseTab, self) + 1)

\* ------------------------------------------------------------ ui::logging
\* log::Level in its order, from the most to the least severe; LevelFilter
\* is the same order with Off ahead of it.
Levels == <<"Error", "Warn", "Info", "Debug", "Trace">>
Level_ord(level) == CHOOSE i \in DOMAIN Levels : Levels[i] = level
LevelFilter_ord(filter) == IF filter = "Off" THEN 0 ELSE Level_ord(filter)
\* Level::to_string.
Level_to_string(level) ==
    CASE level = "Error" -> "ERROR"
      [] level = "Warn" -> "WARN"
      [] level = "Info" -> "INFO"
      [] level = "Debug" -> "DEBUG"
      [] level = "Trace" -> "TRACE"

Record(level, target, args) == [level |-> level, target |-> target, args |-> args]
Span(content, style) == [content |-> content, style |-> style]
Span_raw(content) == Span(content, "")

\* The number of slots of RecordBuff.log_lines.
Slots == 256
\* u8::wrapping_add(1).
wrapping_add_1(idx) == (idx + 1) % 256

RecordBuff(log_lines, latest_idx) == [log_lines |-> log_lines, latest_idx |-> latest_idx]
\* UILogger::new with latest_idx 0: the first record lands in slot 1.
UILogger_new_at_zero == RecordBuff([i \in 0..(Slots - 1) |-> None], 0)
\* UILogger::new: every slot None, latest_idx 255.
UILogger_new == RecordBuff([i \in 0..(Slots - 1) |-> None], 255)

\* Log::enabled.
enabled(level, metadata_level) == Level_ord(metadata_level) <= LevelFilter_ord(level)

level_style(level) ==
    CASE level = "Trace" -> "light_cyan bold"
      [] level = "Debug" -> "light_green bold"
      [] level = "Info" -> "light_blue bold"
      [] level = "Warn" -> "light_yellow bold"
      [] level = "Error" -> "light_red bold"
\* The Line built of a record.
log_line(record) ==
    <<Span_raw("["),
      Span(Level_to_string(record.level), level_style(record.level)),
      Span_raw(IF record.level \in {"Info", "Warn"} THEN "]  " ELSE "] "),
      Span_raw(record.target),
      Span_raw(": "),
      Span_raw(record.args)>>

\* UILogger::log on the buffer: nothing for a record that is not enabled.
UILogger_log(level, buf, record) ==
    IF ~enabled(level, record.level) THEN buf
    ELSE LET idx == wrapping_add_1(buf.latest_idx)
         IN RecordBuff([buf.log_lines EXCEPT ![idx] = Some(log_line(record))], idx)

\* The loop of display_logs, from slot cur_idx: it is over before its
\* iteration k when the slot k places on is None, or when the slot pushed
\* last was latest_idx.
display_over(buf, cur_idx, k) ==
    \/ ~IsSome(buf.log_lines[(cur_idx + k) % 256])
    \/ k >= 1 /\ (cur_idx + k - 1) % 256 = buf.latest_idx
\* The lines it pushes: those of the slots from cur_idx on, wrapping, up to
\* the first iteration at which it is over.
display_loop(buf, cur_idx) ==
    LET count == CHOOSE k \in 0..Slots :
                    /\ display_over(buf, cur_idx, k)
                    /\ \A j \in 0..(k - 1) : ~display_over(buf, cur_idx, j)
    IN [i \in 1..count |-> Unwrap(buf.log_lines[(cur_idx + i - 1) % 256])]
\* display_logs always starting from slot 0.
display_logs_from_zero(buf) == display_loop(buf, 0)
\* RecordBuff::display_logs: from the slot after latest_idx when it is
\* filled (the buffer has wrapped), from slot 0 otherwise.
display_logs(buf) ==
    LET cur_idx == IF IsSome(buf.log_lines[wrapping_add_1(buf.latest_idx)])
                   THEN wrapping_add_1(buf.latest_idx) ELSE 0
    IN display_loop(buf, cur_idx)

\* The statements of UILogger::log under the lock, one by one.
\* (variant: a lock that a second thread can take while the first holds it)
Mutex_lock_not_exclusive(m) == TRUE
\* record_buf.lock(): taken when no thread holds the guard.
Mutex_lock(m) == m = None
\* let idx = record_buf.latest_idx.wrapping_add(1);
log_idx(buf) == wrapping_add_1(buf.latest_idx)
\* record_buf.log_lines[idx as usize] = Some(Arc::new(log_line));
log_store(buf, idx, line) ==
    RecordBuff([buf.log_lines EXCEPT ![idx] = Some(line)], buf.latest_idx)
\* record_buf.latest_idx = idx;
log_publish(buf, idx) == RecordBuff(buf.log_lines, idx)

\* The threads that log, and the thread that draws the debug log.
Loggers == {"t1", "t2"}
Reader == "ui"
Threads == Loggers \cup {Reader}

\* ------------------------------------------------------------ convert_case
\* A String is the sequence of its bytes.
b_a == 97
b_space == 32
\* The loop over bytes.iter().skip(1): a space is pushed before every byte
\* below b'a'.
RECURSIVE convert_loop(_)
convert_loop(bytes) ==
    IF bytes = <<>> THEN <<>>
    ELSE (IF Head(bytes) < b_a THEN <<b_space>> ELSE <<>>)
            \o <<Head(bytes)>> \o convert_loop(Tail(bytes))
\* convert_case without skip(1): the first byte goes through the loop too.
convert_case_from_first(str) ==
    IF str = <<>> THEN [status |-> "Panic", bytes |-> <<>>]
    ELSE [status |-> "Ok", bytes |-> convert_loop(str)]
\* convert_case(str): bytes[0] panics on the empty string.
convert_case(str) ==
    IF str = <<>> THEN [status |-> "Panic", bytes |-> <<>>]
    ELSE [status |-> "Ok", bytes |-> <<str[1]>> \o convert_loop(Tail(str))]

\* ------------------------------------------------------------ Header::fold
\* A header name or value is its sequence of characters; "NUL" is the byte 0.
\* HeaderName::from_bytes: an empty name, or one holding a byte that is not a
\* token character, is refused; the name is lowercased.
TokenChars == {"a", "b", "A", "B", "-"}
to_ascii_lowercase(c) ==
    CASE c = "A" -> "a"
      [] c = "B" -> "b"
      [] OTHER -> c
HeaderName_from_bytes(name) ==
    IF name = <<>> \/ \E i \in DOMAIN name : name[i] \notin TokenChars
    THEN None
    ELSE Some([i \in DOMAIN name |-> to_ascii_lowercase(name[i])])
\* HeaderValue::from_bytes: a control byte is refused.
HeaderValue_from_bytes(value) ==
    IF \E i \in DOMAIN value : value[i] = "NUL" THEN None ELSE Some(value)

\* A HeaderMap: under each name it holds, the values appended, in order.
HeaderMap_new == EmptyMap
\* HeaderMap::append: the value joins those already under the name.
HeaderMap_append(headers, name, value) ==
    Insert(headers, name,
           IF name \in DOMAIN headers THEN Append(headers[name], value) ELSE <<value>>)
\* HeaderMap::insert instead: the values already under the name are dropped.
HeaderMap_insert(headers, name, value) == Insert(headers, name, <<value>>)

OkHeaders(headers) == [status |-> "Ok", headers |-> headers]
ErrHeaders(error) == [status |-> "Err", error |-> error]

\* fold with HeaderMap::insert: the header replaces those of its name.
Header_fold_replacing(headers, el) ==
    IF headers.status = "Ok"
    THEN IF HeaderName_from_bytes(el.name) = None THEN ErrHeaders("InvalidHeaderName")
         ELSE IF HeaderValue_from_bytes(el.value) = None THEN ErrHeaders("InvalidHeaderValue")
         ELSE OkHeaders(HeaderMap_insert(headers.headers,
                                         Unwrap(HeaderName_from_bytes(el.name)),
                                         Unwrap(HeaderValue_from_bytes(el.value))))
    ELSE ErrHeaders("Invalid Headers")
\* Header::fold: `?` returns the error of the name, then of the value.
Header_fold(headers, el) ==
    IF headers.status = "Ok"
    THEN IF HeaderName_from_bytes(el.name) = None THEN ErrHeaders("InvalidHeaderName")
         ELSE IF HeaderValue_from_bytes(el.value) = None THEN ErrHeaders("InvalidHeaderValue")
         ELSE OkHeaders(HeaderMap_append(headers.headers,
                                         Unwrap(HeaderName_from_bytes(el.name)),
                                         Unwrap(HeaderValue_from_bytes(el.value))))
    ELSE ErrHeaders("Invalid Headers")

\* --------------------------------------------------------- RequestBuilder
\* NoName, NoMethod and NoUrl are None; Name(n), HasMethod(m), Url(u) are Some.
RequestBuilder(name, method, url, protocol, headers, body, path_params, query_params) ==
    [name |-> name, method |-> method, url |-> url, protocol |-> protocol,
     headers |-> headers, body |-> body, path_params |-> path_params,
     query_params |-> query_params]
\* Request::builder().
Request_builder == RequestBuilder(None, None, None, None, None, None, None, None)

RequestBuilder_name(self, name) ==
    RequestBuilder(Some(name), self.method, self.url, self.protocol, self.headers,
                   self.body, self.path_params, self.query_params)
RequestBuilder_method(self, method) ==
    RequestBuilder(self.name, Some(method), self.url, self.protocol, self.headers,
                   self.body, self.path_params, self.query_params)
RequestBuilder_url(self, url) ==
    RequestBuilder(self.name, self.method, Some(url), self.protocol, self.headers,
                   self.body, self.path_params, self.query_params)
\* protocol that forgets the body.
RequestBuilder_protocol_clearing_body(self, protocol) ==
    RequestBuilder(self.name, self.method, self.url, Some(protocol), self.headers,
                   None, self.path_params, self.query_params)
RequestBuilder_protocol(self, protocol) ==
    RequestBuilder(self.name, self.method, self.url, Some(protocol), self.headers,
                   self.body, self.path_params, self.query_params)
RequestBuilder_headers(self, headers) ==
    RequestBuilder(self.name, self.method, self.url, self.protocol, Some(headers),
                   self.body, self.path_params, self.query_params)
\* header: pushed when headers is Some; vec![] when it is None.
RequestBuilder_header(self, header) ==
    LET headers == IF IsSome(self.headers) THEN Append(Unwrap(self.headers), header)
                   ELSE <<>>
    IN RequestBuilder(self.name, self.method, self.url, self.protocol, Some(headers),
                      self.body, self.path_params, self.query_params)
RequestBuilder_body(self, body) ==
    RequestBuilder(self.name, self.method, self.url, self.protocol, self.headers,
                   Some(body), self.path_params, self.query_params)
RequestBuilder_path_params(self, path_params) ==
    RequestBuilder(self.name, self.method, self.url, self.protocol, self.headers,
                   self.body, Some(path_params), self.query_params)
RequestBuilder_path_param(self, key, value) ==
    LET path_params == IF IsSome(self.path_params)
                       THEN Insert(Unwrap(self.path_params), key, value)
                       ELSE Insert(EmptyMap, key, value)
    IN RequestBuilder(self.name, self.method, self.url, self.protocol, self.headers,
                      self.body, Some(path_params), self.query_params)
RequestBuilder_query_params(self, query_params) ==
    RequestBuilder(self.name, self.method, self.url, self.protocol, self.headers,
                   self.body, self.path_params, Some(query_params))
RequestBuilder_query_param(self, key, value) ==
    LET query_params == IF IsSome(self.query_params)
                        THEN Insert(Unwrap(self.query_params), key, value)
                        ELSE Insert(EmptyMap, key, value)
    IN RequestBuilder(self.name, self.method, self.url, self.protocol, self.headers,
                      self.body, self.path_params, Some(query_params))

\* Option::unwrap_or_default on a Vec.
unwrap_or_default(o) == IF IsSome(o) THEN Unwrap(o) ELSE <<>>
\* build, of a RequestBuilder<Name, HasMethod, Url>.
RequestBuilder_build(self) ==
    Request(Unwrap(self.name), self.protocol, Unwrap(self.url), Unwrap(self.method),
            unwrap_or_default(self.headers), self.body, self.path_params,
            self.query_params)

\* -------------------------------------------------------------- the program
NoUpdate == [msg |-> Message("none", ""), ret |-> Ok(None), did |-> <<>>, matched |-> None]

\* enum Modal, in declaration order, and its #[default].
Modal == <<"LoadCollection", "Environment", "None">>
Modal_default == "None"

\* AppBuilder::build and the Default of Mode, Pane, Tab and WindowState.
WinBuilt ==
    /\ running = TRUE
    /\ mode = "Normal"
    /\ active_pane = "Select"
    /\ req_tab = "Body"
    /\ show_debug = FALSE
    /\ input_buf = <<>>
    /\ modal = Modal_default
    /\ last = NoUpdate

\* main has not started.
MainIdle ==
    /\ term = Terminal(FALSE, FALSE)
    /\ main_pc = "tui_init"
    /\ main_ret = "running"
    /\ chan = <<>>
    /\ pending = None
    /\ event_thread = "unspawned"
    /\ due = [all |-> 0, head |-> 0]

PureIdle ==
    /\ coll_in = CollectionDefault
    /\ ser_in = SerializedCollection(EmptyMap, EmptyMap)
    /\ ser_out = None
    /\ de_out = None
    /\ rt_out = None
    /\ path_in = WorkDir

\* No conversion made yet.
NoConv == [kind |-> "", fn |-> "", idx |-> 0, variant |-> "",
           back_idx |-> 0, back_variant |-> ""]
\* The default variant of both tab enums, no call made.
TabIdle ==
    /\ tab_kind = "RequestTab"
    /\ tab_self = "Body"
    /\ tab_calls = <<>>
    /\ conv = NoConv

\* A logger just made, nothing logged.
LogIdle ==
    /\ logger_level = "Debug"
    /\ record_buf = UILogger_new
    /\ logged = <<>>
    /\ log_last = None
    /\ shown = None

\* An empty HeaderMap, nothing folded.
FoldIdle ==
    /\ fold_acc = OkHeaders(HeaderMap_new)
    /\ fold_steps = <<>>

\* Request::builder(), nothing called on it.
BuilderIdle ==
    /\ builder = Request_builder
    /\ setter_calls = <<>>
    /\ built = None

\* No key event handled yet.
KeysIdle == before = None

\* No thread has called log() or display_logs(), the Mutex is free.
IdleThread == [pc |-> "idle", record |-> None, idx |-> 0]
ThreadIdle ==
    /\ mutex = None
    /\ threads = [t \in Threads |-> IdleThread]

\* convert_case not called.
CaseIdle ==
    /\ case_in = <<>>
    /\ case_out = None

UnitIdle ==
    /\ TabIdle
    /\ LogIdle
    /\ FoldIdle
    /\ BuilderIdle
    /\ KeysIdle
    /\ ThreadIdle
    /\ CaseIdle

\* Spec drives update with every sequence of Start, LoadCollection(path),
\* NewCollection and SaveCollection that begins with Start (main sends Start
\* before anything else) and stops at the first Err or panic (which ends
\* main), over every disk of WorkDirInputs and every ./request.json.
\*
\* App::builder()...build(): no collection, nothing selected; update has not
\* been called yet.
AppBuilt ==
    /\ collection = None
    /\ req_list_state = None
    /\ hist = <<>>
    /\ writes = NoWrites

Init ==
    /\ AppBuilt
    /\ \E w \in WorkDirInputs, o \in OtherDirInputs :
          disk = [p \in Paths |-> IF p = WorkDir THEN w ELSE o]
    /\ request_json \in RequestJsonInputs
    /\ PureIdle
    /\ UnitIdle
    /\ GlobIdle
    /\ WinBuilt
    /\ MainIdle

\* What the last call of update returned.
ret == IF hist = <<>> THEN Ok(None) ELSE hist[Len(hist)].ret
\* The message of the last call of update.
last_msg == hist[Len(hist)].msg
\* update(app, msg) returned result.
Applied(msg, result) == hist' = Append(hist, [msg |-> msg, ret |-> result])

\* update is called while the previous call returned Ok (an Err or a panic
\* ends main); Message::Start is the first message of the channel.
CanUpdate == hist # <<>> /\ Len(hist) < MaxHist /\ ret.status = "Ok"

Start ==
    /\ hist = <<>>
    /\ Applied(StartMsg, load_application(disk))
    /\ UNCHANGED <<collection, req_list_state, disk, request_json, writes>>
    /\ UNCHANGED notapp

LoadCollection(path) ==
    /\ CanUpdate
    /\ LET outcome == load_outcome(disk[path])
           ser_coll == load_serialized(disk[path])
       IN IF outcome = "Ok"
          THEN /\ \E req_keys \in KeyOrders(ser_coll.requests),
                     env_keys \in KeyOrders(ser_coll.environments) :
                      collection' = Some(deserialize(path, ser_coll, req_keys, env_keys))
               /\ req_list_state' = select_first
               /\ Applied(LoadCollectionMsg(path), Ok(None))
          ELSE /\ Applied(LoadCollectionMsg(path), IF outcome = "Err" THEN Err ELSE Panic)
               /\ UNCHANGED <<collection, req_list_state>>
    /\ UNCHANGED <<disk, request_json, writes>>
    /\ UNCHANGED notapp

NewCollection ==
    /\ CanUpdate
    /\ LET request == from_file_sync(request_json)
       IN IF IsSome(request)
          THEN /\ collection' = Some(new_collection(Unwrap(request)))
               /\ Applied(NewCollectionMsg, Ok(Some(SaveCollectionMsg)))
          ELSE /\ Applied(NewCollectionMsg, Err)
               /\ UNCHANGED collection
    /\ UNCHANGED <<req_list_state, disk, request_json, writes>>
    /\ UNCHANGED notapp

MkdirFailures == {{}, {"path"}, {"requests"}, {"environments"}}
WriteCalls(ser) ==
    {<<"requests", key>> : key \in DOMAIN ser.requests}
        \cup {<<"environments", key>> : key \in DOMAIN ser.environments}

SaveCollection ==
    /\ CanUpdate
    /\ IF IsSome(collection)
       THEN LET coll == Unwrap(collection)
                path == save_path(coll)
                ser == serialize(coll)
            IN \E mkdir_fail \in MkdirFailures, write_fail \in SUBSET WriteCalls(ser) :
                  LET out == save_to(disk[path], ser, mkdir_fail, write_fail)
                  IN /\ disk' = [disk EXCEPT ![path] = out.tree]
                     /\ Applied(SaveCollectionMsg, out.ret)
                     /\ writes' = out.writes
       ELSE /\ Applied(SaveCollectionMsg, Err)
            /\ writes' = NoWrites
            /\ UNCHANGED disk
    /\ UNCHANGED <<collection, req_list_state, request_json>>
    /\ UNCHANGED notapp

Next ==
    \/ Start
    \/ \E path \in Paths : LoadCollection(path)
    \/ NewCollection
    \/ SaveCollection

Spec == Init /\ [][Next]_vars

\* ------------------------------------------- the pure functions, on inputs
AppIdle ==
    /\ AppBuilt
    /\ disk = [p \in Paths |-> AbsentTree]
    /\ request_json = None

InitSer ==
    /\ AppIdle
    /\ GlobIdle
    /\ WinBuilt
    /\ MainIdle
    /\ UnitIdle
    /\ \/ coll_in \in CollectionInputs /\ ser_in = SerializedCollection(EmptyMap, EmptyMap)
       \/ coll_in = CollectionDefault /\ ser_in \in SerializedInputs
    /\ path_in \in Paths
    /\ ser_out = None
    /\ de_out = None
    /\ rt_out = None

Serialize ==
    /\ ser_out = None
    /\ ser_out' = Some(serialize(coll_in))
    /\ UNCHANGED <<coll_in, ser_in, de_out, rt_out, path_in>>
    /\ UNCHANGED notpure

Deserialize ==
    /\ de_out = None
    /\ \E req_keys \in KeyOrders(ser_in.requests), env_keys \in KeyOrders(ser_in.environments) :
          de_out' = Some(deserialize(path_in, ser_in, req_keys, env_keys))
    /\ UNCHANGED <<coll_in, ser_in, ser_out, rt_out, path_in>>
    /\ UNCHANGED notpure

RoundTrip ==
    /\ rt_out = None
    /\ LET ser_coll == serialize(coll_in)
       IN \E req_keys \in KeyOrders(ser_coll.requests),
             env_keys \in KeyOrders(ser_coll.environments) :
             rt_out' = Some(deserialize(path_in, ser_coll, req_keys, env_keys))
    /\ UNCHANGED <<coll_in, ser_in, ser_out, de_out, path_in>>
    /\ UNCHANGED notpure

NextSer == Serialize \/ Deserialize \/ RoundTrip

SpecSer == InitSer /\ [][NextSer]_vars

\* ------------------------------------- the global state functions, on inputs
SecretNames == {"api", "db"}
SecretsInputs == UNION {[d -> Secret] : d \in SUBSET SecretNames}
\* A secrets file: an encoded mapping, a mapping in the {"RawValue": null}
\* form, one with an unknown variant, bytes that are not JSON, unreadable.
SecretsFileInputs ==
    {Some(to_vec_Secrets(secrets)) : secrets \in SecretsInputs}
        \cup {Some(JObj({<<"api", JObj({<<"RawValue", JNull>>})>>})),
              Some(JObj({<<"api", JStr("Sealed")>>})),
              Some(JInvalid),
              None}
AppDirInputs ==
    {Sub("absent", EmptyMap), Sub("file", EmptyMap), Sub("dir", EmptyMap)}
        \cup {Sub("dir", [name \in {"secrets"} |-> file]) : file \in SecretsFileInputs}

\* SpecGlobal applies load_global_state and save_global_state, in any order
\* and any number of times, to every directory of AppDirInputs; the state
\* handed to save_global_state is any mapping of SecretsInputs.
InitGlobal ==
    /\ AppIdle
    /\ PureIdle
    /\ UnitIdle
    /\ WinBuilt
    /\ MainIdle
    /\ home \in BOOLEAN
    /\ app_dir \in AppDirInputs
    /\ global \in {None} \cup {Some(GlobalState(secrets)) : secrets \in SecretsInputs}
    /\ gcall = NoCall

LoadGlobalState ==
    \E mkdir_ok \in BOOLEAN :
        LET out == load_global_state(home, app_dir, mkdir_ok)
        IN /\ app_dir' = out.dir
           /\ global' = IF out.ret.status = "Ok" THEN Some(out.ret.state) ELSE global
           /\ gcall' = [fn |-> "load", before |-> app_dir, state |-> global,
                        allowed |-> mkdir_ok, ret |-> out.ret]
           /\ UNCHANGED home
           /\ UNCHANGED notglob

SaveGlobalState ==
    /\ IsSome(global)
    /\ \E write_allowed \in BOOLEAN :
        LET out == save_global_state(home, app_dir, Unwrap(global), write_allowed)
        IN /\ app_dir' = out.dir
           /\ gcall' = [fn |-> "save", before |-> app_dir, state |-> global,
                        allowed |-> write_allowed, ret |-> out.ret]
           /\ UNCHANGED <<home, global>>
           /\ UNCHANGED notglob

NextGlobal == LoadGlobalState \/ SaveGlobalState

SpecGlobal == InitGlobal /\ [][NextGlobal]_vars

\* --------------------------------------------------- update, on key events
\* App and the files, as update is handed them, and as it leaves them.
TheApp ==
    [collection |-> collection, req_list_state |-> req_list_state, running |-> running,
     mode |-> mode, active_pane |-> active_pane, req_tab |-> req_tab,
     show_debug |-> show_debug, input_buf |-> input_buf, modal |-> modal,
     global |-> global]
TheFs == [disk |-> disk, app_dir |-> app_dir, home |-> home, request_json |-> request_json]

Becomes(out) ==
    /\ collection' = out.app.collection
    /\ req_list_state' = out.app.req_list_state
    /\ running' = out.app.running
    /\ mode' = out.app.mode
    /\ active_pane' = out.app.active_pane
    /\ req_tab' = out.app.req_tab
    /\ show_debug' = out.app.show_debug
    /\ input_buf' = out.app.input_buf
    /\ modal' = out.app.modal
    /\ global' = out.app.global
    /\ disk' = out.fs.disk
    /\ app_dir' = out.fs.app_dir
    /\ writes' = out.writes
    /\ UNCHANGED <<home, request_json>>

KeyCodes ==
    {"1", "2", "3", "4", "i", "h", "j", "k", "l", "q", "Q", "x", "Esc", "F12", "Enter"}
KeyInputs ==
    {KeyEvent(code, "Press") : code \in KeyCodes}
        \cup {KeyEvent(code, "Release") : code \in {"q", "i", "Esc"}}
KeyFaults == {NoFaults, Faults({"path"}, {}, TRUE), Faults({}, {}, FALSE)}

\* A collection directory with two requests, and the collection loaded from it.
KeysTree ==
    Tree("dir",
         Sub("dir", [name \in FileNames |->
                        Some(to_vec_Request(PlainRequest(name, "u1")))]),
         Sub("dir", EmptyMap))
KeysCollection == deserialize(WorkDir, load_serialized(KeysTree), <<"a", "b">>, <<>>)
SecretsDir(secrets) == Sub("dir", [name \in {"secrets"} |-> Some(to_vec_Secrets(secrets))])

\* SpecKeys applies update to every sequence of key events, from the App as
\* built (no collection yet) and from the App after LoadCollection(work_dir),
\* until a call returns an error.
InitKeys ==
    /\ WinBuilt
    /\ PureIdle
    /\ UnitIdle
    /\ MainIdle
    /\ hist = <<>>
    /\ writes = NoWrites
    /\ request_json = None
    /\ disk = [p \in Paths |-> IF p = WorkDir THEN KeysTree ELSE AbsentTree]
    /\ \/ collection = None /\ req_list_state = None
       \/ collection = Some(KeysCollection) /\ req_list_state = select_first
    /\ home = TRUE
    /\ app_dir = SecretsDir(EmptyMap)
    /\ global = Some(GlobalState(EmptyMap))
    /\ gcall = NoCall

Key(key_event) ==
    /\ last.ret.status = "Ok"
    /\ \E faults \in KeyFaults :
          \E out \in update(TheApp, TheFs, RawKeyEvent(key_event), faults) :
             /\ Becomes(out)
             /\ last' = [msg |-> RawKeyEvent(key_event), ret |-> out.ret, did |-> out.did,
                          matched |-> out.matched]
             /\ before' = Some(TheApp)
    /\ UNCHANGED <<hist, gcall>>
    /\ UNCHANGED <<purevars, mainvars, tabvars, logvars, foldvars, buildvars, threadvars, casevars>>

NextKeys == \E key_event \in KeyInputs : Key(key_event)

SpecKeys == InitKeys /\ [][NextKeys]_vars

\* ------------------------------------------------ main and the polling task
LoopKeyInputs == {KeyEvent("q", "Press"), KeyEvent("x", "Press")}
LoopFaults == KeyFaults
LoopWorkDirInputs ==
    {AbsentTree, KeysTree, Tree("dir", Sub("file", EmptyMap), Sub("dir", EmptyMap))}
LoopAppDirInputs ==
    {Sub("absent", EmptyMap), Sub("dir", EmptyMap),
     SecretsDir([name \in {"api"} |-> "RawValue"])}

\* SpecLoop runs main from its first line, with the input-polling task
\* sending None or a key event of LoopKeyInputs at any moment the channel
\* has room, and terminating at any moment.
InitLoop ==
    /\ AppBuilt
    /\ WinBuilt
    /\ PureIdle
    /\ UnitIdle
    /\ MainIdle
    /\ \E w \in LoopWorkDirInputs :
          disk = [p \in Paths |-> IF p = WorkDir THEN w ELSE AbsentTree]
    /\ request_json \in RequestJsonInputs
    /\ home = TRUE
    /\ app_dir \in LoopAppDirInputs
    /\ global = None
    /\ gcall = NoCall

AppUnchanged ==
    UNCHANGED <<collection, req_list_state, running, mode, active_pane, req_tab,
                show_debug, input_buf, modal, global, disk, app_dir, writes, home, request_json>>

\* main returns status from where it is; an error or a panic goes through
\* the hooks of errors::install_hooks.
Exit(status) ==
    /\ main_ret' = status
    /\ term' = IF status = "Ok" THEN term ELSE error_hook(term)
    /\ UNCHANGED <<main_pc, chan, pending, event_thread, due>>

At(pc) == main_ret = "running" /\ main_pc = pc

\* let mut tui = tui::init()?;
TuiInit ==
    /\ At("tui_init")
    /\ \E ok \in BOOLEAN :
          IF ok THEN /\ term' = tui_init(term)
                     /\ main_pc' = "build"
                     /\ UNCHANGED <<main_ret, chan, pending, event_thread, due>>
          ELSE Exit("Err")
    /\ AppUnchanged
    /\ UNCHANGED <<hist, gcall, last>>
    /\ UNCHANGED <<purevars, unitvars>>

\* App::builder()...global_state(load_global_state()?).build()
Build ==
    /\ At("build")
    /\ \E mkdir_ok \in BOOLEAN :
          LET out == load_global_state(home, app_dir, mkdir_ok)
          IN /\ app_dir' = out.dir
             /\ gcall' = [fn |-> "load", before |-> app_dir, state |-> global,
                          allowed |-> mkdir_ok, ret |-> out.ret]
             /\ IF out.ret.status = "Ok"
                THEN /\ global' = Some(out.ret.state)
                     /\ main_pc' = "spawn"
                     /\ UNCHANGED <<term, main_ret, chan, pending, event_thread, due>>
                ELSE /\ Exit("Err")
                     /\ UNCHANGED global
    /\ UNCHANGED <<collection, req_list_state, running, mode, active_pane, req_tab,
                   show_debug, input_buf, modal, disk, writes, home, request_json>>
    /\ UNCHANGED <<hist, last>>
    /\ UNCHANGED <<purevars, unitvars>>

\* The channel is made, Start is sent, the polling task is spawned.
Spawn ==
    /\ At("spawn")
    /\ chan' = <<Some(StartMsg)>>
    /\ event_thread' = "running"
    /\ main_pc' = "head"
    /\ UNCHANGED <<term, main_ret, pending, due>>
    /\ AppUnchanged
    /\ UNCHANGED <<hist, gcall, last>>
    /\ UNCHANGED <<purevars, unitvars>>

\* while app.running { if event_thread.is_finished() { bail!(..) } ..
LoopHead ==
    /\ At("head")
    /\ IF ~running
       THEN /\ main_pc' = "restore"
            /\ UNCHANGED <<term, main_ret, chan, pending, event_thread, due>>
       ELSE IF event_thread = "finished"
       THEN Exit("Err")
       ELSE /\ main_pc' = "draw"
            /\ UNCHANGED <<term, main_ret, chan, pending, event_thread, due>>
    /\ AppUnchanged
    /\ UNCHANGED <<hist, gcall, last>>
    /\ UNCHANGED <<purevars, unitvars>>

SomeCount(ch) == Cardinality({i \in DOMAIN ch : ch[i] # None})
HeadCount(ch) ==
    IF \E i \in DOMAIN ch : ch[i] = None
    THEN (CHOOSE i \in DOMAIN ch : ch[i] = None /\ \A j \in 1..(i - 1) : ch[j] # None) - 1
    ELSE Len(ch)

\* tui.draw(|frame| ui::draw(&mut app, frame))?;
Draw ==
    /\ At("draw")
    /\ IF draw_panics(TheApp)
       THEN /\ Exit("Panic")
            /\ UNCHANGED req_list_state
       ELSE \E ok \in BOOLEAN :
               IF ok
               THEN /\ req_list_state' = render_list(req_list_state, list_len(TheApp))
                    /\ due' = [all |-> SomeCount(chan), head |-> HeadCount(chan)]
                    /\ main_pc' = "recv"
                    /\ UNCHANGED <<term, main_ret, chan, pending, event_thread>>
               ELSE /\ Exit("Err")
                    /\ UNCHANGED req_list_state
    /\ UNCHANGED <<collection, running, mode, active_pane, req_tab,
                   show_debug, input_buf, modal, global, disk, app_dir, writes, home, request_json>>
    /\ UNCHANGED <<hist, gcall, last>>
    /\ UNCHANGED <<purevars, unitvars>>

Less(n) == IF n = 0 THEN 0 ELSE n - 1

\* event_rx.recv().await, and for a message update(&mut app, msg)?.
Recv ==
    /\ At("recv")
    /\ chan # <<>>
    /\ chan' = Tail(chan)
    /\ IF Head(chan) = None
       THEN /\ main_pc' = after_recv(None, Ok(None))
            /\ UNCHANGED <<term, main_ret, pending, event_thread, due, last>>
            /\ AppUnchanged
       ELSE \E faults \in LoopFaults :
            \E out \in update(TheApp, TheFs, Unwrap(Head(chan)), faults) :
               /\ Becomes(out)
               /\ last' = [msg |-> Unwrap(Head(chan)), ret |-> out.ret, did |-> out.did,
                            matched |-> out.matched]
               /\ due' = [all |-> Less(due.all), head |-> Less(due.head)]
               /\ IF after_recv(Head(chan), out.ret) = "exit"
                  THEN /\ main_ret' = out.ret.status
                       /\ term' = error_hook(term)
                       /\ UNCHANGED <<main_pc, pending, event_thread>>
                  ELSE /\ main_pc' = after_recv(Head(chan), out.ret)
                       /\ pending' = IF after_recv(Head(chan), out.ret) = "send"
                                      THEN out.ret.msg ELSE None
                       /\ UNCHANGED <<term, main_ret, event_thread>>
    /\ UNCHANGED <<hist, gcall>>
    /\ UNCHANGED <<purevars, unitvars>>

\* event_tx.send(Some(msg)).await?; waits while the channel is full.
Send ==
    /\ At("send")
    /\ Len(chan) < Capacity
    /\ chan' = Append(chan, pending)
    /\ pending' = None
    /\ main_pc' = "recv"
    /\ UNCHANGED <<term, main_ret, event_thread, due>>
    /\ AppUnchanged
    /\ UNCHANGED <<hist, gcall, last>>
    /\ UNCHANGED <<purevars, unitvars>>

\* tui::restore()?; Ok(())
Restore ==
    /\ At("restore")
    /\ term' = tui_restore(term)
    /\ main_ret' = "Ok"
    /\ main_pc' = "done"
    /\ UNCHANGED <<chan, pending, event_thread, due>>
    /\ AppUnchanged
    /\ UNCHANGED <<hist, gcall, last>>
    /\ UNCHANGED <<purevars, unitvars>>

\* start_event_thread: one turn of its loop, tx.send(msg).await waiting
\* while the channel is full.
Poll(value) ==
    /\ main_ret = "running"
    /\ event_thread = "running"
    /\ Len(chan) < Capacity
    /\ chan' = Append(chan, value)
    /\ UNCHANGED <<term, main_pc, main_ret, pending, event_thread, due>>
    /\ AppUnchanged
    /\ UNCHANGED <<hist, gcall, last>>
    /\ UNCHANGED <<purevars, unitvars>>

\* start_event_thread returns: event::poll or event::read failed.
PollFails ==
    /\ main_ret = "running"
    /\ event_thread = "running"
    /\ event_thread' = "finished"
    /\ UNCHANGED <<term, main_pc, main_ret, chan, pending, due>>
    /\ AppUnchanged
    /\ UNCHANGED <<hist, gcall, last>>
    /\ UNCHANGED <<purevars, unitvars>>

MainStep == TuiInit \/ Build \/ Spawn \/ LoopHead \/ Draw \/ Recv \/ Send \/ Restore

NextLoop ==
    \/ MainStep
    \/ \E value \in {None} \cup {Some(RawKeyEvent(key_event)) : key_event \in LoopKeyInputs} :
          Poll(value)
    \/ PollFails

SpecLoop == InitLoop /\ [][NextLoop]_vars

\* ------------------------------------------------ the tab enums, on inputs
\* SpecTabs starts from every variant of either enum, calls prev_tab and
\* next_tab in every order, and converts every variant to its index and
\* every index up to MaxIdx to its variant, and back.
TabKinds == {"RequestTab", "ResponseTab"}
Variants(kind) == IF kind = "RequestTab" THEN RequestTab ELSE ResponseTab

prev_tab(kind, self) ==
    IF kind = "RequestTab" THEN RequestTab_prev_tab(self) ELSE ResponseTab_prev_tab(self)
next_tab(kind, self) ==
    IF kind = "RequestTab" THEN RequestTab_next_tab(self) ELSE ResponseTab_next_tab(self)

InitTabs ==
    /\ AppIdle
    /\ KeysIdle
    /\ ThreadIdle
    /\ CaseIdle
    /\ PureIdle
    /\ GlobIdle
    /\ WinBuilt
    /\ MainIdle
    /\ LogIdle
    /\ FoldIdle
    /\ BuilderIdle
    /\ tab_kind \in TabKinds
    /\ tab_self \in Range(Variants(tab_kind))
    /\ tab_calls = <<>>
    /\ conv = NoConv

TabCalled(fn, result) ==
    /\ Len(tab_calls) < MaxCalls
    /\ tab_self' = result
    /\ tab_calls' = Append(tab_calls, [fn |-> fn, self |-> tab_self, ret |-> result])
    /\ UNCHANGED <<tab_kind, conv>>
    /\ UNCHANGED <<appvars, purevars, globvars, winvars, mainvars, logvars, foldvars, buildvars, keyvars, threadvars, casevars>>

PrevTab == TabCalled("prev_tab", prev_tab(tab_kind, tab_self))
NextTab == TabCalled("next_tab", next_tab(tab_kind, tab_self))

\* usize::from(val), and back.
IntoUsize(val) ==
    LET idx == OrderedEnum_into(Variants(tab_kind), val)
        back == OrderedEnum_from(Variants(tab_kind), idx)
    IN /\ conv' = [kind |-> tab_kind, fn |-> "into", idx |-> idx, variant |-> val,
                    back_idx |-> OrderedEnum_into(Variants(tab_kind), back),
                    back_variant |-> back]
       /\ UNCHANGED <<tab_kind, tab_self, tab_calls>>
       /\ UNCHANGED <<appvars, purevars, globvars, winvars, mainvars, logvars, foldvars, buildvars, keyvars, threadvars, casevars>>

\* Enum::from(val), and back.
FromUsize(val) ==
    LET variant == OrderedEnum_from(Variants(tab_kind), val)
        back == OrderedEnum_into(Variants(tab_kind), variant)
    IN /\ conv' = [kind |-> tab_kind, fn |-> "from", idx |-> val, variant |-> variant,
                    back_idx |-> back,
                    back_variant |-> OrderedEnum_from(Variants(tab_kind), back)]
       /\ UNCHANGED <<tab_kind, tab_self, tab_calls>>
       /\ UNCHANGED <<appvars, purevars, globvars, winvars, mainvars, logvars, foldvars, buildvars, keyvars, threadvars, casevars>>

NextTabs ==
    \/ PrevTab
    \/ NextTab
    \/ \E val \in Range(Variants(tab_kind)) : IntoUsize(val)
    \/ \E val \in 0..MaxIdx : FromUsize(val)

SpecTabs == InitTabs /\ [][NextTabs]_vars

\* --------------------------------------------------- the debug log, on inputs
\* SpecLogs hands log() one record after another, the k-th stored one with
\* the text k, each at a level the logger stores or at one it drops, and
\* calls display_logs in between.
LoggerLevels == {"Off", "Info", "Debug"}
RecordLevels == {"Info", "Trace"}
Target == "test::target"

InitLogs ==
    /\ AppIdle
    /\ KeysIdle
    /\ ThreadIdle
    /\ CaseIdle
    /\ PureIdle
    /\ GlobIdle
    /\ WinBuilt
    /\ MainIdle
    /\ TabIdle
    /\ FoldIdle
    /\ BuilderIdle
    /\ logger_level \in LoggerLevels
    /\ record_buf = UILogger_new
    /\ logged = <<>>
    /\ log_last = None
    /\ shown = None

Log(record) ==
    /\ Len(logged) < MaxLogs
    /\ record_buf' = UILogger_log(logger_level, record_buf, record)
    /\ logged' = IF enabled(logger_level, record.level) THEN Append(logged, record) ELSE logged
    /\ log_last' = Some(record)
    /\ shown' = None
    /\ UNCHANGED logger_level
    /\ UNCHANGED <<appvars, purevars, globvars, winvars, mainvars, tabvars, foldvars, buildvars, keyvars, threadvars, casevars>>

DisplayLogs ==
    /\ shown' = Some(display_logs(record_buf))
    /\ UNCHANGED <<logger_level, record_buf, logged, log_last>>
    /\ UNCHANGED <<appvars, purevars, globvars, winvars, mainvars, tabvars, foldvars, buildvars, keyvars, threadvars, casevars>>

NextLogs ==
    \/ \E level \in RecordLevels : Log(Record(level, Target, ToString(Len(logged) + 1)))
    \/ DisplayLogs

SpecLogs == InitLogs /\ [][NextLogs]_vars

\* ---------------------------------------------------- Header::fold, on inputs
\* SpecFold folds every list of up to MaxFold headers of HeaderInputs, from
\* an empty HeaderMap and from an accumulator that is already an error.
HeaderNameInputs == {<<>>, <<"a">>, <<"A">>, <<"NUL", "a">>}
HeaderValueInputs == {<<"v">>, <<"w">>, <<"NUL", "v">>}
HeaderInputs == {Header(name, value) : name \in HeaderNameInputs, value \in HeaderValueInputs}

InitFold ==
    /\ AppIdle
    /\ KeysIdle
    /\ ThreadIdle
    /\ CaseIdle
    /\ PureIdle
    /\ GlobIdle
    /\ WinBuilt
    /\ MainIdle
    /\ TabIdle
    /\ LogIdle
    /\ BuilderIdle
    /\ fold_acc \in {OkHeaders(HeaderMap_new), ErrHeaders("Error")}
    /\ fold_steps = <<>>

Fold(el) ==
    /\ Len(fold_steps) < MaxFold
    /\ fold_acc' = Header_fold(fold_acc, el)
    /\ fold_steps' = Append(fold_steps, [headers |-> fold_acc, el |-> el, ret |-> fold_acc'])
    /\ UNCHANGED <<appvars, purevars, globvars, winvars, mainvars, tabvars, logvars, buildvars, keyvars, threadvars, casevars>>

NextFold == \E el \in HeaderInputs : Fold(el)

SpecFold == InitFold /\ [][NextFold]_vars

\* -------------------------------------------------- RequestBuilder, on inputs
\* SpecBuilder calls the setters of one RequestBuilder in every order, on
\* the values below, and build() once name, method and url are set; build
\* consumes the builder.
H1 == Header("Accept", "text/plain")
H2 == Header("Accept", "text/html")
Params(key, value) == Insert(EmptyMap, key, value)
NameInputs == {"TestName", "OtherName"}
BuildableCalls == <<"name", "method", "url">>

\* The calls made so far lead with name, method, url.
LeadsBuildable ==
    /\ Len(setter_calls) >= Len(BuildableCalls)
    /\ \A i \in DOMAIN BuildableCalls : setter_calls[i].fn = BuildableCalls[i]
CallsCounted ==
    IF LeadsBuildable THEN Len(setter_calls) - Len(BuildableCalls) ELSE Len(setter_calls)

InitBuilder ==
    /\ AppIdle
    /\ KeysIdle
    /\ ThreadIdle
    /\ CaseIdle
    /\ PureIdle
    /\ GlobIdle
    /\ WinBuilt
    /\ MainIdle
    /\ TabIdle
    /\ LogIdle
    /\ FoldIdle
    /\ builder = Request_builder
    /\ setter_calls = <<>>
    /\ built = None

\* self.fn(arg) returned result.
Set(fn, arg, result) ==
    /\ built = None
    /\ \/ CallsCounted < MaxSetters
       \/ Len(setter_calls) < Len(BuildableCalls) /\ fn = BuildableCalls[Len(setter_calls) + 1]
             /\ \A i \in DOMAIN setter_calls : setter_calls[i].fn = BuildableCalls[i]
    /\ builder' = result
    /\ setter_calls' = Append(setter_calls,
                               [fn |-> fn, arg |-> arg, self |-> builder, ret |-> result])
    /\ UNCHANGED built
    /\ UNCHANGED <<appvars, purevars, globvars, winvars, mainvars, tabvars, logvars, foldvars, keyvars, threadvars, casevars>>

SetName == \E name \in NameInputs : Set("name", name, RequestBuilder_name(builder, name))
SetMethod == Set("method", "Get", RequestBuilder_method(builder, "Get"))
SetUrl == Set("url", "http://example.com", RequestBuilder_url(builder, "http://example.com"))
SetProtocol == Set("protocol", "Http", RequestBuilder_protocol(builder, "Http"))
SetHeaders == Set("headers", <<H1>>, RequestBuilder_headers(builder, <<H1>>))
AddHeader == \E header \in {H1, H2} : Set("header", header, RequestBuilder_header(builder, header))
SetBody == Set("body", "body content", RequestBuilder_body(builder, "body content"))
SetPathParams ==
    Set("path_params", Params("key", "value"),
        RequestBuilder_path_params(builder, Params("key", "value")))
AddPathParam ==
    Set("path_param", <<"id", "1">>, RequestBuilder_path_param(builder, "id", "1"))
SetQueryParams ==
    Set("query_params", Params("key", "value"),
        RequestBuilder_query_params(builder, Params("key", "value")))
AddQueryParam ==
    Set("query_param", <<"q", "x">>, RequestBuilder_query_param(builder, "q", "x"))

BuildRequest ==
    /\ built = None
    /\ IsSome(builder.name) /\ IsSome(builder.method) /\ IsSome(builder.url)
    /\ built' = Some(RequestBuilder_build(builder))
    /\ UNCHANGED <<builder, setter_calls>>
    /\ UNCHANGED <<appvars, purevars, globvars, winvars, mainvars, tabvars, logvars, foldvars, keyvars, threadvars, casevars>>

NextBuilder ==
    \/ SetName \/ SetMethod \/ SetUrl \/ SetProtocol \/ SetHeaders \/ AddHeader
    \/ SetBody \/ SetPathParams \/ AddPathParam \/ SetQueryParams \/ AddQueryParam
    \/ BuildRequest

SpecBuilder == InitBuilder /\ [][NextBuilder]_vars

\* ------------------------------------- log() and display_logs(), threaded
\* SpecThreads runs UILogger::log on the threads of Loggers, one statement
\* at a time, while the thread that draws calls display_logs under the lock.
\* Every record carries the same text: the records stored are told apart by
\* their number and their slots.
InitThreads ==
    /\ AppIdle
    /\ KeysIdle
    /\ CaseIdle
    /\ PureIdle
    /\ GlobIdle
    /\ WinBuilt
    /\ MainIdle
    /\ TabIdle
    /\ FoldIdle
    /\ BuilderIdle
    /\ LogIdle
    /\ ThreadIdle

\* The calls of log() that have passed enabled() and have not returned.
InFlight == {t \in Loggers : threads[t].pc # "idle"}
ThreadAt(t, pc) == threads[t].pc = pc
Goes(t, pc) == threads' = [threads EXCEPT ![t].pc = pc]
NotThreads ==
    <<appvars, purevars, globvars, winvars, mainvars, tabvars, foldvars, buildvars,
      keyvars, casevars>>

\* log(record) up to the lock: a record that is not enabled returns at once.
LogCall(t, record) ==
    /\ ThreadAt(t, "idle")
    /\ Len(logged) + Cardinality(InFlight) < MaxLogs
    /\ threads' = IF enabled(logger_level, record.level)
                  THEN [threads EXCEPT ![t] = [pc |-> "lock", record |-> Some(record),
                                               idx |-> 0]]
                  ELSE threads
    /\ log_last' = Some(record)
    /\ UNCHANGED <<logger_level, record_buf, logged, shown, mutex>>
    /\ UNCHANGED NotThreads

\* if let Ok(mut record_buf) = record_buf.lock()
LogLock(t) ==
    /\ ThreadAt(t, "lock")
    /\ Mutex_lock(mutex)
    /\ mutex' = Some(t)
    /\ Goes(t, "index")
    /\ UNCHANGED logvars
    /\ UNCHANGED NotThreads

LogIndex(t) ==
    /\ ThreadAt(t, "index")
    /\ threads' = [threads EXCEPT ![t].pc = "store", ![t].idx = log_idx(record_buf)]
    /\ UNCHANGED <<logvars, mutex>>
    /\ UNCHANGED NotThreads

LogStore(t) ==
    /\ ThreadAt(t, "store")
    /\ record_buf' = log_store(record_buf, threads[t].idx,
                               log_line(Unwrap(threads[t].record)))
    /\ shown' = None
    /\ Goes(t, "publish")
    /\ UNCHANGED <<logger_level, logged, log_last, mutex>>
    /\ UNCHANGED NotThreads

\* The last statement under the lock; the guard is dropped and log returns.
LogPublish(t) ==
    /\ ThreadAt(t, "publish")
    /\ record_buf' = log_publish(record_buf, threads[t].idx)
    /\ logged' = Append(logged, Unwrap(threads[t].record))
    /\ mutex' = None
    /\ threads' = [threads EXCEPT ![t] = IdleThread]
    /\ UNCHANGED <<logger_level, log_last, shown>>
    /\ UNCHANGED NotThreads

\* ui::draw: if let Ok(log_buf) = app.debug_logs.lock()
ReadLock ==
    /\ ThreadAt(Reader, "idle")
    /\ Mutex_lock(mutex)
    /\ mutex' = Some(Reader)
    /\ Goes(Reader, "read")
    /\ UNCHANGED logvars
    /\ UNCHANGED NotThreads

\* log_buf.display_logs(), and the guard dropped.
ReadDisplay ==
    /\ ThreadAt(Reader, "read")
    /\ shown' = Some(display_logs(record_buf))
    /\ mutex' = None
    /\ Goes(Reader, "idle")
    /\ UNCHANGED <<logger_level, record_buf, logged, log_last>>
    /\ UNCHANGED NotThreads

NextThreads ==
    \/ \E t \in Loggers, level \in RecordLevels :
          LogCall(t, Record(level, Target, "line"))
    \/ \E t \in Loggers : LogLock(t)
    \/ \E t \in Loggers : LogIndex(t)
    \/ \E t \in Loggers : LogStore(t)
    \/ \E t \in Loggers : LogPublish(t)
    \/ ReadLock
    \/ ReadDisplay

SpecThreads == InitThreads /\ [][NextThreads]_vars

\* --------------------------------------------------- convert_case, on inputs
\* SpecCase hands convert_case every string of up to MaxCase bytes of
\* CaseBytes: upper and lower case letters, and an underscore.
CaseBytes == {65, 87, 90, 95, 97, 111, 122}
CaseInputs == UNION {[1..n -> CaseBytes] : n \in 0..MaxCase}

InitCase ==
    /\ AppIdle
    /\ KeysIdle
    /\ ThreadIdle
    /\ PureIdle
    /\ GlobIdle
    /\ WinBuilt
    /\ MainIdle
    /\ TabIdle
    /\ FoldIdle
    /\ BuilderIdle
    /\ LogIdle
    /\ case_in \in CaseInputs
    /\ case_out = None

ConvertCase ==
    /\ case_out = None
    /\ case_out' = Some(convert_case(case_in))
    /\ UNCHANGED case_in
    /\ UNCHANGED <<appvars, purevars, globvars, winvars, mainvars, tabvars, logvars,
                   foldvars, buildvars, keyvars, threadvars>>

NextCase == ConvertCase

SpecCase == InitCase /\ [][NextCase]_vars

\* ------------------------------------------------------------------ claims
DistinctNames(items) ==
    \A i, j \in DOMAIN items : i # j => items[i].name # items[j].name
\* The items of a sequence that carry the name, in sequence order.
Named(items, name) == SelectSeq(items, LAMBDA item : item.name = name)
LastNamed(items, name) == Named(items, name)[Len(Named(items, name))]
NamesOf(items) == {items[i].name : i \in DOMAIN items}
\* How often a value occurs in a sequence.
Count(items, x) == Cardinality({i \in DOMAIN items : items[i] = x})

\* C1: for a Collection with pairwise distinct request names and pairwise
\* distinct environment names, deserialize(p, serialize(C)) has the same set
\* of requests, the same set of environments, and save_location p.
C1_RoundTripRestores ==
    (IsSome(rt_out) /\ DistinctNames(coll_in.requests)
                    /\ DistinctNames(coll_in.environments)) =>
        /\ Range(Unwrap(rt_out).requests) = Range(coll_in.requests)
        /\ Range(Unwrap(rt_out).environments) = Range(coll_in.environments)
        /\ Unwrap(rt_out).save_location = Some(path_in)

\* C3: the blob serialize stores under an environment's name is the JSON
\* encoding of its values mapping alone, the form deserialize decodes.
C3_EnvironmentBlobIsValues ==
    (IsSome(ser_out) /\ DistinctNames(coll_in.environments)) =>
        \A i \in DOMAIN coll_in.environments :
            LET env == coll_in.environments[i]
                blob == Unwrap(ser_out).environments[env.name]
            IN /\ blob = to_json_EnvironmentValues(env.values)
               /\ from_slice_EnvironmentValues(blob) = Some(env.values)

\* C4: deserialize never fails; it keeps every request blob that decodes and
\* every environment blob that decodes (named by its key) and skips the
\* others, so one undecodable blob among N requests leaves N-1 requests.
RequestDecodes(key) == IsSome(from_slice_Request(ser_in.requests[key]))
EnvironmentDecodes(key) == IsSome(from_slice_EnvironmentValues(ser_in.environments[key]))

C4_DeserializeSkipsUndecodable ==
    IsSome(de_out) =>
        LET out == Unwrap(de_out)
            good_reqs == {key \in DOMAIN ser_in.requests : RequestDecodes(key)}
            good_envs == {key \in DOMAIN ser_in.environments : EnvironmentDecodes(key)}
        IN /\ Len(out.requests) = Cardinality(good_reqs)
           /\ \A key \in good_reqs :
                 LET req == Unwrap(from_slice_Request(ser_in.requests[key]))
                 IN Count(out.requests, req) =
                        Cardinality({k \in good_reqs :
                            Unwrap(from_slice_Request(ser_in.requests[k])) = req})
           /\ Len(out.environments) = Cardinality(good_envs)
           /\ Range(out.environments) =
                 {Environment(key, Unwrap(from_slice_EnvironmentValues(ser_in.environments[key])))
                     : key \in good_envs}

\* Reached: N >= 2 request blobs, exactly one of them undecodable, N-1 kept.
C4_Witness ==
    /\ IsSome(de_out)
    /\ Cardinality(DOMAIN ser_in.requests) >= 2
    /\ Cardinality({key \in DOMAIN ser_in.requests : ~RequestDecodes(key)}) = 1
    /\ Len(Unwrap(de_out).requests) = Cardinality(DOMAIN ser_in.requests) - 1
    /\ \E key \in DOMAIN ser_in.environments : ~EnvironmentDecodes(key)

\* C5: the serialized requests (environments) mapping has one entry per
\* distinct name, and the entry of a name is the encoding of the last item of
\* that name in sequence order.
C5_SerializeLastOfNameWins ==
    IsSome(ser_out) =>
        LET ser == Unwrap(ser_out)
        IN /\ DOMAIN ser.requests = NamesOf(coll_in.requests)
           /\ \A name \in DOMAIN ser.requests :
                 ser.requests[name] = to_vec_Request(LastNamed(coll_in.requests, name))
           /\ DOMAIN ser.environments = NamesOf(coll_in.environments)
           /\ \A name \in DOMAIN ser.environments :
                 ser.environments[name] =
                     to_vec_Environment(LastNamed(coll_in.environments, name))

\* Reached: two different requests of one name, one entry for it.
C5_Witness ==
    /\ IsSome(ser_out)
    /\ Len(coll_in.requests) = 2
    /\ coll_in.requests[1].name = coll_in.requests[2].name
    /\ coll_in.requests[1] # coll_in.requests[2]
    /\ Cardinality(DOMAIN Unwrap(ser_out).requests) = 1

\* The bootstrap chain on a first run: Start found no work_dir and returned
\* NewCollection, which was applied next and returned SaveCollection, which
\* was applied next.
StartedWithoutWorkDir == Len(hist) >= 1 /\ hist[1].ret = Ok(Some(NewCollectionMsg))
NewCollectionChained == StartedWithoutWorkDir /\ Len(hist) >= 2 /\ hist[2].msg = NewCollectionMsg
SaveCollectionChained ==
    /\ NewCollectionChained
    /\ hist[2].ret = Ok(Some(SaveCollectionMsg))
    /\ Len(hist) >= 3 /\ hist[3].msg = SaveCollectionMsg

\* C2: with no work_dir, Start -> NewCollection -> SaveCollection leaves a
\* collection of exactly 1 request and 1 environment, persisted so that a
\* LoadCollection(work_dir) right afterwards yields the same counts.
C2_BootstrapPersists ==
    /\ (SaveCollectionChained /\ Len(hist) = 3 /\ ret = Ok(None)) =>
          /\ Len(Unwrap(collection).requests) = 1
          /\ Len(Unwrap(collection).environments) = 1
    /\ (SaveCollectionChained /\ hist[3].ret = Ok(None) /\ writes.failed = {}
            /\ Len(hist) = 4 /\ last_msg = LoadCollectionMsg(WorkDir)) =>
          /\ ret = Ok(None)
          /\ Len(Unwrap(collection).requests) = 1
          /\ Len(Unwrap(collection).environments) = 1

\* C6: whenever app.collection is present, request names are pairwise
\* distinct and environment names are pairwise distinct.
C6_NamesUnique ==
    IsSome(collection) =>
        /\ DistinctNames(Unwrap(collection).requests)
        /\ DistinctNames(Unwrap(collection).environments)

\* SaveCollection was the last message, and it ran on a collection.
Saved == hist # <<>> /\ last_msg = SaveCollectionMsg /\ IsSome(collection)
SavedTree == disk[save_path(Unwrap(collection))]

\* C7: after SaveCollection succeeds with no write failing, every request r
\* is encoded in <P>/requests/<r.name> and every environment e in
\* <P>/environments/<e.name>, P being save_location or else work_dir; P and
\* its two subdirectories exist.
C7_SavedFilesHoldEncodings ==
    (Saved /\ ret = Ok(None) /\ writes.failed = {}) =>
        LET coll == Unwrap(collection)
        IN /\ exists(SavedTree)
           /\ exists(SavedTree.requests)
           /\ exists(SavedTree.environments)
           /\ \A i \in DOMAIN coll.requests :
                 /\ coll.requests[i].name \in DOMAIN SavedTree.requests.files
                 /\ SavedTree.requests.files[coll.requests[i].name]
                        = Some(to_vec_Request(coll.requests[i]))
           /\ \A i \in DOMAIN coll.environments :
                 /\ coll.environments[i].name \in DOMAIN SavedTree.environments.files
                 /\ SavedTree.environments.files[coll.environments[i].name]
                        = Some(to_vec_Environment(coll.environments[i]))

\* C8: in SaveCollection a failed write of one file stops neither the other
\* writes (every file of the serialized collection is attempted, and every
\* write that did not fail is on disk) nor makes the handler return an error;
\* it returns an error exactly when a directory could not be created.
C8_WriteFailuresAreSwallowed ==
    Saved =>
        LET ser == serialize(Unwrap(collection))
            req_calls == {<<"requests", key>> : key \in DOMAIN ser.requests}
        IN /\ ret.status \in {"Ok", "Err"}
           /\ ret.status = "Err" <=> writes.mkdir_failed # {}
           /\ ret.status = "Ok" => writes.attempted = WriteCalls(ser)
           /\ writes.mkdir_failed = {"environments"} => writes.attempted = req_calls
           /\ \A w \in writes.attempted \ writes.failed :
                 IF w[1] = "requests"
                 THEN SavedTree.requests.files[w[2]] = Some(ser.requests[w[2]])
                 ELSE SavedTree.environments.files[w[2]] = Some(ser.environments[w[2]])

\* Reached: a save that returned Ok although a write failed, with another
\* write attempted and done.
C8_Witness ==
    /\ Saved
    /\ ret = Ok(None)
    /\ writes.failed # {}
    /\ writes.attempted \ writes.failed # {}

\* C9: LoadCollection(path) returns an error when path/requests or
\* path/environments cannot be read as a directory, and then leaves
\* app.collection and the list cursor as they were.
C9_UnreadableDirIsError ==
    [][\A path \in Paths :
          (/\ Len(hist') = Len(hist) + 1
           /\ hist'[Len(hist')].msg = LoadCollectionMsg(path)
           /\ \/ ~read_dir_ok(disk[path].requests)
              \/ ~read_dir_ok(disk[path].environments))
          => /\ hist'[Len(hist')].ret = Err
             /\ collection' = collection
             /\ req_list_state' = req_list_state]_vars

\* C10: with no work_dir, Start and the messages it chains never return an
\* error unless the operating system refuses to create a directory, whatever
\* the current directory holds.
C10_FirstRunNeverFails ==
    /\ StartedWithoutWorkDir => hist[1].ret.status = "Ok"
    /\ NewCollectionChained => hist[2].ret.status = "Ok"
    /\ (SaveCollectionChained /\ Len(hist) = 3 /\ writes.mkdir_failed = {}) =>
          hist[3].ret.status = "Ok"

\* C11: load_global_state, the home directory being known: (a) with no
\* global directory, and the creation not refused, it creates the directory
\* and returns Ok with an empty secrets mapping; (b) with the directory
\* there and the secrets file missing or unreadable it returns an error;
\* (c) with the directory and a decodable secrets file it returns Ok with
\* the decoded mapping, and leaves the directory as it was.
C11_LoadGlobalState ==
    (gcall.fn = "load" /\ home) =>
        /\ (gcall.before.kind = "absent" /\ gcall.allowed) =>
               /\ gcall.ret = [status |-> "Ok", state |-> GlobalState(EmptyMap)]
               /\ app_dir = Sub("dir", EmptyMap)
               /\ global = Some(GlobalState(EmptyMap))
        /\ (gcall.before.kind = "dir" /\ ~IsSome(read_secrets(gcall.before))) =>
               /\ gcall.ret = Err
               /\ app_dir = gcall.before
               /\ global = gcall.state
        /\ (/\ gcall.before.kind = "dir"
            /\ IsSome(read_secrets(gcall.before))
            /\ IsSome(from_slice_Secrets(Unwrap(read_secrets(gcall.before))))) =>
               /\ gcall.ret.status = "Ok"
               /\ gcall.ret.state.secrets
                      = Unwrap(from_slice_Secrets(Unwrap(read_secrets(gcall.before))))
               /\ \A secrets \in SecretsInputs :
                      read_secrets(gcall.before) = Some(to_vec_Secrets(secrets))
                          => gcall.ret.state.secrets = secrets
               /\ app_dir = gcall.before

\* Reached: a load that found the directory without a secrets file and
\* returned an error.
C11_Witness ==
    /\ gcall.fn = "load"
    /\ home
    /\ gcall.before = Sub("dir", EmptyMap)
    /\ gcall.ret = Err

\* C12: save_global_state, the home directory being known: with the global
\* directory there, a save that returns Ok has left the JSON encoding of the
\* secrets mapping as the content of the secrets file, whatever it held, and
\* a save that returns an error (the write refused) has left the directory
\* as it was; with no directory it returns Ok and leaves the file system as
\* it was (no directory, no file).
C12_SaveGlobalState ==
    (gcall.fn = "save" /\ home) =>
        /\ gcall.before.kind = "dir" =>
               /\ gcall.ret \in {Ok(None), Err}
               /\ (gcall.allowed /\ "secrets" \notin DOMAIN gcall.before.files)
                      => gcall.ret = Ok(None)
               /\ gcall.ret = Ok(None) =>
                      /\ app_dir.kind = "dir"
                      /\ DOMAIN app_dir.files = DOMAIN gcall.before.files \cup {"secrets"}
                      /\ app_dir.files["secrets"] = Some(to_vec_Secrets(Unwrap(gcall.state).secrets))
                      /\ from_slice_Secrets(Unwrap(app_dir.files["secrets"]))
                             = Some(Unwrap(gcall.state).secrets)
               /\ gcall.ret = Err => app_dir = gcall.before
        /\ gcall.before.kind # "dir" =>
               /\ gcall.ret = Ok(None)
               /\ app_dir = gcall.before

\* Reached: a save that replaced a secrets file holding another mapping.
C12_Witness ==
    /\ gcall.fn = "save"
    /\ home
    /\ gcall.ret = Ok(None)
    /\ gcall.before.kind = "dir"
    /\ "secrets" \in DOMAIN gcall.before.files
    /\ gcall.before.files["secrets"] # app_dir.files["secrets"]

\* A step of SpecKeys that applied update to a key pressed in the given mode.
Pressed(m, codes) ==
    /\ mode = m
    /\ last.ret.status = "Ok"
    /\ last'.msg.type = "RawKeyEvent"
    /\ last'.msg.kind = "Press"
    /\ last'.msg.path \in codes

\* C19: in Insert mode every pressed character key c appends c to
\* app.input_buf.
C19_InsertAppendsToInputBuf ==
    [][\A c \in {code \in KeyCodes : IsChar(code)} :
          Pressed("Insert", {c}) => input_buf' = Append(input_buf, c)]_vars

\* What pane, tab, list cursor, running and mode are.
Focus == <<active_pane, req_tab, req_list_state, running, mode>>

\* C20: keys are read by mode. In Normal mode i sets the mode to Insert,
\* 1-4 set the pane, h/l move the tab when the Request pane has the focus,
\* j/k move the list cursor when the Select pane has it, q/Q set running to
\* false. In Insert mode Esc sets the mode to Normal and no other key
\* changes the pane, the tab, the list cursor, running or the mode.
C20_KeysGatedByMode ==
    [][/\ Pressed("Normal", {"i"}) => mode' = "Insert"
       /\ Pressed("Normal", {"1"}) => active_pane' = "Select"
       /\ Pressed("Normal", {"2"}) => active_pane' = "Url"
       /\ Pressed("Normal", {"3"}) => active_pane' = "Request"
       /\ Pressed("Normal", {"4"}) => active_pane' = "Response"
       /\ (Pressed("Normal", {"h"}) /\ active_pane = "Request") =>
              req_tab' = Tab_from(saturating_sub(Tab_into(req_tab)))
       /\ (Pressed("Normal", {"l"}) /\ active_pane = "Request") =>
              req_tab' = Tab_from(Tab_into(req_tab) + 1)
       /\ (Pressed("Normal", {"j"}) /\ active_pane = "Select") =>
              req_list_state' = select_next(req_list_state)
       /\ (Pressed("Normal", {"k"}) /\ active_pane = "Select") =>
              req_list_state' = select_previous(req_list_state)
       /\ Pressed("Normal", {"q", "Q"}) => running' = FALSE
       /\ Pressed("Insert", {"Esc"}) => mode' = "Normal"
       /\ Pressed("Insert", KeyCodes \ {"Esc"}) => Focus' = Focus]_vars

\* Reached: q was pressed in Insert mode and the application is still
\* running, in Insert mode.
C20_Witness ==
    /\ last.msg.type = "RawKeyEvent"
    /\ last.msg.path = "q"
    /\ last.msg.kind = "Press"
    /\ mode = "Insert"
    /\ running

\* The last call of update ran the Quit arm.
QuitApplied == last.matched = Some(QuitMsg)

\* C13: processing Quit sets app.running to false and runs the save of the
\* collection and then the save of the global state: after every Quit both
\* have run, in that order.
C13_QuitSavesCollectionThenGlobal ==
    QuitApplied =>
        /\ running = FALSE
        /\ last.did = <<"SaveCollection", "SaveGlobal">>

\* A message returned by update (LoadCollection, NewCollection or
\* SaveCollection) that update has not been applied to yet.
IsFollowUp(value) ==
    value # None /\ value[1].type \in {"LoadCollection", "NewCollection", "SaveCollection"}
FollowUpInFlight == IsFollowUp(pending) \/ \E i \in DOMAIN chan : IsFollowUp(chan[i])

\* C14: a message returned by update is applied by update before the next
\* call of draw, under every interleaving with the polling task.
C14_FollowUpBeforeDraw == At("draw") => ~FollowUpInFlight

\* C15: every message that was in the channel when draw ran is applied by
\* update before the next draw.
C15_DrainsAllQueued == At("draw") => due.all = 0

\* C15, amended: every message that was in the channel when draw ran, ahead
\* of the first None value of the channel, is applied by update before the
\* next draw.
C15_DrainsUpToFirstNone == At("draw") => due.head = 0

\* Reached: main is about to draw again, after update was applied to a
\* message, while a message that was in the channel at the last draw (behind
\* a None value) is still not applied.
C15_Witness ==
    /\ At("draw")
    /\ last.matched # None
    /\ due.head = 0
    /\ due.all > 0

\* A step of main that received a value of the channel.
MainRecv == At("recv") /\ chan # <<>> /\ chan' = Tail(chan)

\* C16: when update returns None for a message, the inner receive loop ends
\* for that render cycle.
C16_NoneResultEndsInnerLoop ==
    [][(MainRecv /\ Head(chan) # None /\ last'.ret = Ok(None)) => main_pc' # "recv"]_vars

\* C16, amended: the inner receive loop ends for the render cycle when, and
\* only when, a None value is received from the channel (an error of update
\* ends main); when update returns None for a message, main goes on to
\* receive the next value without drawing.
C16_NoneValueEndsInnerLoop ==
    [][(MainRecv /\ main_ret' = "running") =>
          /\ main_pc' = "head" <=> Head(chan) = None
          /\ (Head(chan) # None /\ last'.ret = Ok(None)) => main_pc' = "recv"]_vars

\* Reached: update returned None for a key event and main is receiving again,
\* with a further message in the channel.
C16_Witness ==
    /\ At("recv")
    /\ last.msg.type = "RawKeyEvent"
    /\ last.ret = Ok(None)
    /\ chan # <<>>
    /\ Head(chan) # None

\* main waits: in recv on an empty channel, or in send on a full one.
Blocked == (At("recv") /\ chan = <<>>) \/ (At("send") /\ Len(chan) = Capacity)

\* C17: once the polling task has terminated main does not wait forever:
\* it is never left waiting on a channel that nothing will send to or
\* receive from any more.
C17_PollingDeathIsFatal == event_thread = "finished" => ~Blocked

Declared(kind, i) == Variants(kind)[i + 1]
LastIdx(kind) == Len(Variants(kind)) - 1
Smaller(a, b) == IF a < b THEN a ELSE b
Larger(a, b) == IF a < b THEN b ELSE a

\* C21: every call of prev_tab on the variant declared at index i returns
\* the variant declared at i - 1, and the first variant when i = 0; every
\* call of next_tab returns the variant declared at i + 1, and the last
\* variant when i is the last index; so for both enums, however many calls
\* follow one another, with no panic and no wrap-around.
C21_TabsStepAndClamp ==
    \A k \in DOMAIN tab_calls :
       \E i \in 0..LastIdx(tab_kind) :
          /\ tab_calls[k].self = Declared(tab_kind, i)
          /\ tab_calls[k].ret =
                IF tab_calls[k].fn = "prev_tab"
                THEN Declared(tab_kind, Larger(i - 1, 0))
                ELSE Declared(tab_kind, Smaller(i + 1, LastIdx(tab_kind)))
\* prev_tab was called on the first variant of RequestTab and next_tab on its
\* last, in one run of MaxCalls calls.
C21_Witness ==
    /\ tab_kind = "RequestTab"
    /\ Len(tab_calls) = MaxCalls
    /\ \E k \in DOMAIN tab_calls :
          tab_calls[k].fn = "prev_tab" /\ tab_calls[k].self = Declared(tab_kind, 0)
    /\ \E k \in DOMAIN tab_calls :
          tab_calls[k].fn = "next_tab" /\ tab_calls[k].self = Declared(tab_kind, LastIdx(tab_kind))

\* C29: usize::from of the variant declared at index i is i; From<usize> of
\* i is the variant declared at i when i < n and the last variant when
\* i >= n; converting a variant to usize and back gives the variant, and
\* converting i to a variant and back gives min(i, n - 1).
C29_OrderedEnumConversions ==
    /\ conv.fn = "into" =>
          /\ conv.idx \in 0..LastIdx(conv.kind)
          /\ conv.variant = Declared(conv.kind, conv.idx)
          /\ conv.back_variant = conv.variant
    /\ conv.fn = "from" =>
          /\ conv.idx <= LastIdx(conv.kind) => conv.variant = Declared(conv.kind, conv.idx)
          /\ conv.idx > LastIdx(conv.kind) =>
                conv.variant = Declared(conv.kind, LastIdx(conv.kind))
          /\ conv.back_idx = Smaller(conv.idx, LastIdx(conv.kind))
\* An index past the last variant of RequestTab was converted.
C29_Witness ==
    /\ conv.fn = "from"
    /\ conv.kind = "RequestTab"
    /\ conv.idx > Len(RequestTab)

\* The text of a line: the content of its last span.
TextOf(line) == line[Len(line)].content

\* C22: after n stored records L1..Ln, display_logs returns the lines of the
\* most recent min(n, Slots) of them, oldest first, each once (nothing for
\* n = 0, L1..Ln for n <= 256, L45..L300 for n = 300).
C22_DisplayIsRecentInOrder ==
    IsSome(shown) =>
       LET n == Len(logged)
           m == Smaller(n, Slots)
       IN /\ Len(Unwrap(shown)) = m
          /\ \A i \in 1..m : TextOf(Unwrap(shown)[i]) = logged[n - m + i].args
\* display_logs ran on a buffer that has wrapped: 300 records stored.
C22_Witness ==
    /\ IsSome(shown)
    /\ Len(logged) = 300
    /\ TextOf(Unwrap(shown)[1]) = "45"

\* C26: a fresh logger has latest_idx 255; after n >= 1 stored records
\* latest_idx is (n - 1) mod 256 and slot (n - 1) mod 256 holds the n-th
\* record, slot 255 still holding the 256th when the 257th has overwritten
\* slot 0; latest_idx is always one of the 256 slots.
C26_LatestIdxWrapsAtSlots ==
    LET n == Len(logged)
    IN /\ record_buf.latest_idx \in DOMAIN record_buf.log_lines
       /\ n = 0 => record_buf.latest_idx = 255
       /\ n >= 1 =>
             /\ record_buf.latest_idx = (n - 1) % 256
             /\ record_buf.log_lines[(n - 1) % 256] = Some(log_line(logged[n]))
       /\ n = 257 => record_buf.log_lines[255] = Some(log_line(logged[256]))
\* The 257th record has been stored.
C26_Witness ==
    /\ Len(logged) = 257
    /\ record_buf.latest_idx = 0

\* The values a HeaderMap holds under a name, none when it lacks the name.
ValuesOf(headers, name) == IF name \in DOMAIN headers THEN headers[name] ELSE <<>>
\* The header cannot be turned into a HeaderName and a HeaderValue.
InvalidHeader(el) ==
    HeaderName_from_bytes(el.name) = None \/ HeaderValue_from_bytes(el.value) = None

\* C23: a step of the fold returns an error when its accumulator is an error
\* or the name or the value of its header is invalid, so every step after an
\* error returns an error; any other step returns the accumulator with the
\* value of the header added behind the values already held under its name,
\* and everything else as it was.
C23_FoldAppendsOrFails ==
    \A k \in DOMAIN fold_steps :
       LET step == fold_steps[k]
       IN /\ k > 1 => step.headers = fold_steps[k - 1].ret
          /\ IF step.headers.status = "Err" \/ InvalidHeader(step.el)
             THEN step.ret.status = "Err"
             ELSE LET name == Unwrap(HeaderName_from_bytes(step.el.name))
                  IN /\ step.ret.status = "Ok"
                     /\ DOMAIN step.ret.headers = DOMAIN step.headers.headers \cup {name}
                     /\ step.ret.headers[name] =
                           Append(ValuesOf(step.headers.headers, name), step.el.value)
                     /\ \A other \in DOMAIN step.headers.headers \ {name} :
                           step.ret.headers[other] = step.headers.headers[other]
\* A header was appended under a name that already held a value, and a later
\* step failed on an invalid header, and the step after it failed as well.
C23_Witness ==
    /\ Len(fold_steps) = 4
    /\ fold_steps[1].ret.status = "Ok"
    /\ fold_steps[2].ret.status = "Ok"
    /\ Len(ValuesOf(fold_steps[2].ret.headers, <<"a">>)) = 2
    /\ fold_steps[3].headers.status = "Ok" /\ fold_steps[3].ret.status = "Err"
    /\ ~InvalidHeader(fold_steps[4].el) /\ fold_steps[4].ret.status = "Err"

\* The setters that store the value they are handed, named as their field.
Setters == {"name", "method", "url", "protocol", "headers", "body", "path_params",
            "query_params"}
\* The setter that adds one entry to a field, for the fields that have one.
Adder(field) ==
    CASE field = "headers" -> "header"
      [] field = "path_params" -> "path_param"
      [] field = "query_params" -> "query_param"
      [] OTHER -> "none"
\* The calls of a setter, as their places in setter_calls.
CallsOf(fn) == {k \in DOMAIN setter_calls : setter_calls[k].fn = fn}
LastCallOf(fn) == CHOOSE k \in CallsOf(fn) : \A j \in CallsOf(fn) : j <= k

\* C24: a call of one of the eight setters returns a builder whose field of
\* that name holds the value supplied and whose other fields are those of
\* the builder it was called on; and build() returns, in each field that no
\* adding setter touched, the value its setter was handed last: an empty
\* list of headers, and None in an optional field, when it never was.
C24_SettersSetOwnFieldOnly ==
    /\ \A k \in DOMAIN setter_calls :
          setter_calls[k].fn \in Setters =>
             /\ setter_calls[k].ret[setter_calls[k].fn] = Some(setter_calls[k].arg)
             /\ \A field \in Setters \ {setter_calls[k].fn} :
                   setter_calls[k].ret[field] = setter_calls[k].self[field]
    /\ IsSome(built) =>
          \A field \in Setters :
             CallsOf(Adder(field)) = {} =>
                IF CallsOf(field) = {}
                THEN Unwrap(built)[field] = None
                ELSE IF field \in {"name", "method", "url", "headers"}
                     THEN Unwrap(built)[field] = setter_calls[LastCallOf(field)].arg
                     ELSE Unwrap(built)[field] = Some(setter_calls[LastCallOf(field)].arg)
\* A Request was built after name was set twice and body once, protocol,
\* headers and the parameters never.
C24_Witness ==
    /\ IsSome(built)
    /\ Cardinality(CallsOf("name")) = 2
    /\ Unwrap(built).name = "OtherName"
    /\ setter_calls[1].arg = "TestName"
    /\ Unwrap(built).body = Some("body content")
    /\ Unwrap(built).protocol = None
    /\ Unwrap(built).headers = <<>>
    /\ Len(setter_calls) = 5

\* The headers the calls made so far supplied: those of the last call of
\* headers(..), if any, followed by the header of each later call of
\* header(..), in call order.
SuppliedHeaders ==
    LET from == IF CallsOf("headers") = {} THEN 0 ELSE LastCallOf("headers")
        added == SelectSeq([k \in DOMAIN setter_calls |->
                               IF k > from /\ setter_calls[k].fn = "header"
                               THEN Some(setter_calls[k].arg) ELSE None],
                           IsSome)
    IN (IF from = 0 THEN <<>> ELSE setter_calls[from].arg)
       \o [i \in DOMAIN added |-> Unwrap(added[i])]

\* C25: the headers of the built Request are the headers supplied before,
\* followed by h1..hn of the calls header(h1), ..., header(hn) in call
\* order, duplicates included and none dropped, whether or not headers(..)
\* was called first.
C25_HeadersKeepEveryHeader ==
    IsSome(built) => Unwrap(built).headers = SuppliedHeaders

\* The last key event was turned into a message of the type, and update
\* applied it.
MatchedLast(type) ==
    /\ IsSome(before)
    /\ IsSome(last.matched)
    /\ Unwrap(last.matched).type = type

\* C27: SelectUp and SelectDown change the list cursor and nothing else, and
\* that only when the Select pane has the focus; SelectLeft and SelectRight
\* change the request tab and nothing else, and that only when the Request
\* pane has it; with any other pane focused they leave App as it was;
\* RequestPane(p) sets the focused pane to p and changes nothing else.
C27_DirectionsGatedByPane ==
    /\ \A type \in {"SelectUp", "SelectDown"} :
          MatchedLast(type) =>
             IF Unwrap(before).active_pane = "Select"
             THEN TheApp = [Unwrap(before) EXCEPT !.req_list_state = req_list_state]
             ELSE TheApp = Unwrap(before)
    /\ \A type \in {"SelectLeft", "SelectRight"} :
          MatchedLast(type) =>
             IF Unwrap(before).active_pane = "Request"
             THEN TheApp = [Unwrap(before) EXCEPT !.req_tab = req_tab]
             ELSE TheApp = Unwrap(before)
    /\ MatchedLast("RequestPane") =>
          TheApp = [Unwrap(before) EXCEPT !.active_pane = Unwrap(last.matched).path]
\* SelectLeft was applied with the Response pane focused, the second tab
\* showing.
C27_Witness ==
    /\ MatchedLast("SelectLeft")
    /\ Unwrap(before).active_pane = "Response"
    /\ Unwrap(before).req_tab = Tab[2]

\* The index of a tab among the variants of Tab.
TabIdx(tab) == CHOOSE i \in 0..(Len(Tab) - 1) : Tab[i + 1] = tab

\* C28: with the Request pane focused, each SelectLeft takes the tab from
\* index i to i - 1, and leaves it at 0; each SelectRight takes it to i + 1,
\* and leaves it at the last index; so after any sequence of them the tab is
\* a variant, at the index the clamped steps add up to.
C28_TabIndexClamped ==
    /\ req_tab \in Range(Tab)
    /\ (MatchedLast("SelectLeft") /\ Unwrap(before).active_pane = "Request") =>
          TabIdx(req_tab) = Larger(TabIdx(Unwrap(before).req_tab) - 1, 0)
    /\ (MatchedLast("SelectRight") /\ Unwrap(before).active_pane = "Request") =>
          TabIdx(req_tab) = Smaller(TabIdx(Unwrap(before).req_tab) + 1, Len(Tab) - 1)
\* SelectRight was applied on the last tab, the Request pane focused.
C28_Witness ==
    /\ MatchedLast("SelectRight")
    /\ Unwrap(before).active_pane = "Request"
    /\ Unwrap(before).req_tab = Tab[Len(Tab)]
    /\ req_tab = Tab[Len(Tab)]

\* C30: a call of update on ToggleDebug negates show_debug and leaves the
\* rest of App and the files as they were; a second one right after it
\* gives back the App the first one found; and a press of F12 is turned into
\* ToggleDebug in Normal and in Insert mode.
C30_ToggleDebugFlipsOnly ==
    [][/\ last'.matched = Some(ToggleDebugMsg) =>
             /\ TheApp' = [TheApp EXCEPT !.show_debug = ~show_debug]
             /\ TheFs' = TheFs
       /\ (last.matched = Some(ToggleDebugMsg) /\ last'.matched = Some(ToggleDebugMsg)) =>
             TheApp' = Unwrap(before)
       /\ \A m \in {"Normal", "Insert"} :
             Pressed(m, {"F12"}) => last'.matched = Some(ToggleDebugMsg)]_vars
\* F12 was pressed in Insert mode and switched the debug view off again.
C30_Witness ==
    /\ MatchedLast("ToggleDebug")
    /\ last.msg.path = "F12"
    /\ Unwrap(before).mode = "Insert"
    /\ Unwrap(before).show_debug = TRUE
    /\ show_debug = FALSE

\* A step of main that received a message of the channel and applied update
\* to it.
MainUpdate == MainRecv /\ Head(chan) # None

\* C31: the first message update is applied to is Start, whatever the
\* polling task has sent by then; the call on Start leaves App and the files
\* as they were and returns LoadCollection(work_dir) when work_dir exists at
\* that moment, NewCollection when it does not.
C31_StartFirstAndPure ==
    [][/\ (MainUpdate /\ last = NoUpdate) => Head(chan) = Some(StartMsg)
       /\ (MainUpdate /\ Head(chan) = Some(StartMsg)) =>
             /\ TheApp' = TheApp
             /\ TheFs' = TheFs
             /\ last'.ret = Ok(Some(IF exists(disk[WorkDir])
                                     THEN LoadCollectionMsg(WorkDir)
                                     ELSE NewCollectionMsg))]_vars
\* Start was applied, with no work_dir, while a key event sent by the polling
\* task was waiting in the channel.
C31_Witness ==
    /\ last.msg = StartMsg
    /\ last.ret = Ok(Some(NewCollectionMsg))
    /\ ~exists(disk[WorkDir])
    /\ \E i \in DOMAIN chan : chan[i] # None /\ chan[i][1].type = "RawKeyEvent"

\* C32: whenever draw runs while app.collection is present, the request-list
\* cursor has a selected index, so the expect on selected() does not fail.
C32_DrawFindsSelection == At("draw") => ~draw_panics(TheApp)

\* C33: the main loop is never blocked forever in send: it is the only
\* receiver of the channel, so a send of a follow-up message on a full
\* channel would never return.
C33_SendNeverBlocks == At("send") => Len(chan) < Capacity

\* C34: whenever SaveCollection is applied (as a message of its own, chained
\* from NewCollection, or called by Quit), app.collection is present, so the
\* error "Attempted to serialize a none collection" is not returned.
C34_SaveHasCollection ==
    (last.did # <<>> /\ Head(last.did) = "SaveCollection") => IsSome(collection)

\* C35: once Quit has been applied and app.running is false (only Quit
\* clears it), update is not called again: no message still in the channel
\* is applied to App.
C35_NoUpdateAfterQuit == [][MainUpdate => running]_vars

\* LoadCollection(path) succeeded, SaveCollection succeeded after it, and
\* this step is LoadCollection(path) succeeding again.
ReloadAfterSave(path) ==
    /\ Len(hist) >= 2
    /\ hist[Len(hist) - 1] = [msg |-> LoadCollectionMsg(path), ret |-> Ok(None)]
    /\ hist[Len(hist)] = [msg |-> SaveCollectionMsg, ret |-> Ok(None)]
    /\ hist' = Append(hist, [msg |-> LoadCollectionMsg(path), ret |-> Ok(None)])

\* C36: for a directory from which LoadCollection succeeds, LoadCollection;
\* SaveCollection; LoadCollection ends with a collection that has the same
\* set of requests and the same environments, names and contents, as the
\* collection of the first load.
C36_LoadSaveStable ==
    [][\A path \in Paths :
          ReloadAfterSave(path) =>
              LET first == Unwrap(collection)
                  second == Unwrap(collection')
              IN /\ {second.requests[i] : i \in DOMAIN second.requests}
                        = {first.requests[i] : i \in DOMAIN first.requests}
                 /\ second.environments = first.environments]_vars

\* C37: when load_global_state succeeded in a run of the program and the run
\* has ended, in whatever way, load_global_state of the next run, which finds
\* the home directory as this run left it, succeeds and returns the secrets
\* mapping this run held.
C37_GlobalStateSurvivesRestart ==
    (main_ret # "running" /\ IsSome(global)) =>
        \A mkdir_ok \in BOOLEAN :
            LET next_run == load_global_state(home, app_dir, mkdir_ok)
            IN /\ next_run.ret.status = "Ok"
               /\ next_run.ret.state = Unwrap(global)

\* No thread that logs is inside the lock: what a reader can observe.
Observable == mutex = None \/ mutex = Some(Reader)
\* The slots of the buffer that are filled.
Filled == {i \in 0..(Slots - 1) : IsSome(record_buf.log_lines[i])}
\* The lines of the last min(n, 256) records stored, oldest first.
Recent ==
    LET n == Len(logged)
        from == IF n > Slots THEN n - Slots ELSE 0
    IN [k \in 1..(n - from) |-> log_line(logged[from + k])]

\* C38: with log() running on several threads and display_logs read under
\* the lock, no record is lost or torn. A thread inside the lock writes the
\* slot of the record it is storing, the (n + 1)-th after n stored records;
\* and in every state a reader can observe latest_idx is (n - 1) mod 256,
\* each of the last min(n, 256) records is in its own slot, slot latest_idx
\* is filled once n >= 1, the filled slots are 0..latest_idx before the
\* first wrap and all 256 afterwards, and display_logs returns as many lines
\* as there are records kept.
C38_NoRecordLostOrTorn ==
    LET n == Len(logged)
    IN /\ \A t \in Loggers :
              threads[t].pc \in {"store", "publish"} => threads[t].idx = n % Slots
       /\ Observable =>
              /\ record_buf.latest_idx = (n + Slots - 1) % Slots
              /\ \A k \in 1..n :
                     k > n - Slots =>
                         record_buf.log_lines[(k - 1) % Slots] = Some(log_line(logged[k]))
              /\ n >= 1 => record_buf.latest_idx \in Filled
              /\ Filled = IF n < Slots THEN 0..(n - 1) ELSE 0..(Slots - 1)
              /\ IsSome(shown) => Unwrap(shown) = Recent
\* Reached: the buffer has wrapped, the reader holds the lock and both
\* logging threads wait for it.
C38_Witness ==
    /\ Len(logged) > Slots
    /\ mutex = Some(Reader)
    /\ \A t \in Loggers : threads[t].pc = "lock"

\* update(app, msg) does not look at window_state.modal: with any Modal in
\* place of the one App holds it ends in the same ways, the modal left as it
\* was.
ModalIndependent(msg) ==
    \A m \in Range(Modal), faults \in KeyFaults :
        update([TheApp EXCEPT !.modal = m], TheFs, msg, faults)
            = {[out EXCEPT !.app.modal = m] : out \in update(TheApp, TheFs, msg, faults)}

\* C39: window_state.modal is Modal::None before and after every call of
\* update, so draw does not reach the todo!() of Modal::Environment, and the
\* result of update for the message is independent of the modal.
C39_ModalStaysNone ==
    [][/\ modal = "None"
       /\ modal' = "None"
       /\ draw_modal(modal') # "todo"
       /\ ModalIndependent(last'.msg)]_vars
\* Reached: a message that changes window state was applied.
C39_Witness ==
    /\ last.matched = Some(RequestPaneMsg("Request"))
    /\ active_pane = "Request"
    /\ modal = "None"

\* Bytes of ASCII letters.
IsUpper(b) == b \in 65..90
IsLower(b) == b \in 97..122
IsLetter(b) == IsUpper(b) \/ IsLower(b)
\* The uppercase letters of a string after its first character, by position.
InnerUpper(str) == {i \in 2..Len(str) : IsUpper(str[i])}
\* Where the i-th character of str lands once a space is inserted before
\* each of those.
Landing(str, i) == i + Cardinality({j \in InnerUpper(str) : j <= i})

\* C40: convert_case of a non-empty string of ASCII letters returns the same
\* characters in the same order with exactly one space inserted before every
\* uppercase letter other than the first character; a string with no such
\* letter is returned unchanged.
C40_ConvertCaseSpacesInnerCapitals ==
    (IsSome(case_out) /\ case_in # <<>> /\ \A i \in DOMAIN case_in : IsLetter(case_in[i])) =>
        LET out == Unwrap(case_out)
        IN /\ out.status = "Ok"
           /\ Len(out.bytes) = Len(case_in) + Cardinality(InnerUpper(case_in))
           /\ \A i \in DOMAIN case_in : out.bytes[Landing(case_in, i)] = case_in[i]
           /\ \A i \in InnerUpper(case_in) : out.bytes[Landing(case_in, i) - 1] = b_space
           /\ InnerUpper(case_in) = {} => out.bytes = case_in
\* Reached: "WoW" was converted to "Wo W".
C40_Witness ==
    /\ case_in = <<87, 111, 87>>
    /\ case_out = Some([status |-> "Ok", bytes |-> <<87, 111, 32, 87>>])

=============================================================================
